---------------------------- MODULE Spec2Model ----------------------------
(***************************************************************************)
(* A model of octi's GridGraph (src/octi/gridgraph/GridGraph.cpp): the     *)
(* octilinear grid of centers and ports, its construction, the node        *)
(* open/close operations, the reversible cost vectors and balanceEdge;     *)
(* and of the line-ordering ILP (src/transitmap/optim/ILPOptimizer.cpp).   *)
(*                                                                         *)
(* Costs are doubles in the source.  The model counts them in tenths       *)
(* (1.4 is 14), so every cost of the scenarios is an integer; the rounding *)
(* of floating-point addition is not modelled.                             *)
(***************************************************************************)
EXTENDS Integers, Sequences, FiniteSets, TLC

(***************************************************************************)
(* Bounds of the model.                                                    *)
(***************************************************************************)
GridW == 2
GridH == 2
MaxOps == 3
MaxSlots == 1
BuildW == 3
BuildH == 3
MaxPathCost == 45
MaxRouted == 3

(***************************************************************************)
(* Program constants.                                                      *)
(***************************************************************************)
\* INF, std::numeric_limits<double>::infinity()
INF == 1000000
\* -1.0 * std::numeric_limits<double>::max(), the closed sentinel of a NodeCost
Sentinel == -1000000

Dirs == 0 .. 7

\* the input (comb) edges that may reserve a grid edge
CombEdges == {"e1"}

\* the additive values a cost vector's slot may hold, in tenths
AddVals == {5}

\* "no node": getNode's and getNeighbor's 0
NoNode == <<-1, -1>>

Abs(v) == IF v < 0 THEN -v ELSE v

\* C++ integer remainder: truncates toward zero
CMod(a, b) == IF a >= 0 THEN a % b ELSE -((-a) % b)

(***************************************************************************)
(* The grid, as a value: dimensions, and per center and per inter-cell     *)
(* edge the fields the operations read and write.                          *)
(***************************************************************************)
CentersOf(w, h) == (0 .. (w - 1)) \X (0 .. (h - 1))

\* GridGraph::getNode: 0 when out of bounds.  The source computes cx + x in
\* size_t, where a coordinate below zero wraps to a value above every width.
getNode(G, x, y) ==
    IF x < 0 \/ y < 0 \/ x >= G.w \/ y >= G.h THEN NoNode ELSE <<x, y>>

\* GridGraph::getNeighbor: the offset table of the 8 directions
NeighDX(i) == IF i > 4 THEN -1 ELSE IF i % 4 = 0 THEN 0 ELSE 1
NeighDY(i) == IF i = 3 \/ i = 4 \/ i = 5 THEN -1 ELSE IF i = 2 \/ i = 6 THEN 0 ELSE 1
getNeighbor(G, c, i) == getNode(G, c[1] + NeighDX(i), c[2] + NeighDY(i))

\* An inter-cell edge joins port i of center c and port (i + 4) % 8 of c's
\* neighbour in direction i.  It is named by its end with the direction below 4:
\* <<center, direction>>.
\* getEdg(p, neigh->pl().getPort((i + 4) % 8)): the edge of c in direction i
EdgOf(G, c, i) == IF i < 4 THEN <<c, i>> ELSE <<getNeighbor(G, c, i), i - 4>>

\* the inter-cell edges the constructor adds (GridGraph::GridGraph, second loop):
\* one per center and direction with a neighbour; adding it again from the other
\* end is a no-op
InterEdges(w, h) ==
    LET G0 == [w |-> w, h |-> h]
    IN  {EdgOf(G0, cp[1], cp[2]) :
            cp \in {q \in CentersOf(w, h) \X Dirs : getNeighbor(G0, q[1], q[2]) # NoNode}}

\* the inter-cell edges with a port of center c
EdgesAt(G, c) == {EdgOf(G, c, i) : i \in {j \in Dirs : getNeighbor(G, c, j) # NoNode}}

\* the two centers an inter-cell edge joins
EndsOf(G, e) == {e[1], getNeighbor(G, e[1], e[2])}

\* the penalty configuration of scenario S1, in tenths
S1Pens ==
    [verticalPen |-> 10, horizontalPen |-> 10, diagonalPen |-> 14,
     p_0 |-> 0, p_135 |-> 10, p_90 |-> 20, p_45 |-> 30]

\* a configuration with fractional penalties (0.5, 0.5, 0.7; 0, 0.5, 1, 1.5)
HalfPens ==
    [verticalPen |-> 5, horizontalPen |-> 5, diagonalPen |-> 7,
     p_0 |-> 0, p_135 |-> 5, p_90 |-> 10, p_45 |-> 15]

\* the configurations a grid is built with; each satisfies the constructor's
\* asserts p_0 < p_135 < p_90 < p_45
PenConfigs == {S1Pens, HalfPens}

\* writeInitialCosts without its horizontal case: the edge keeps the cost 0 the
\* constructor gave it
InitialCostNoHorizontal(pens, i) ==
    IF i % 4 = 0 THEN pens.verticalPen
    ELSE IF (i + 2) % 4 = 0 THEN 0
    ELSE pens.diagonalPen

\* a configuration with negative bend penalties (-2, -1, 1, 2)
NegPens ==
    [verticalPen |-> 10, horizontalPen |-> 10, diagonalPen |-> 14,
     p_0 |-> -20, p_135 |-> -10, p_90 |-> 10, p_45 |-> 20]

\* the constructor's asserts on the penalties
PensAsserted(pens) ==
    pens.p_0 < pens.p_135 /\ pens.p_135 < pens.p_90 /\ pens.p_90 < pens.p_45

\* the configurations the constructor is run with
BuildConfigs == {pens \in PenConfigs \cup {NegPens} : PensAsserted(pens)}

\* GridGraph::writeInitialCosts: the cost of an inter-cell edge in direction i
\* (the edge is created with cost 0, then the three tests run in order)
InitialCost(pens, i) ==
    LET c0 == 0
        c1 == IF i % 4 = 0 THEN pens.verticalPen ELSE c0
        c2 == IF (i + 2) % 4 = 0 THEN pens.horizontalPen ELSE c1
    IN  IF i % 2 # 0 THEN pens.diagonalPen ELSE c2

\* the grid after GridGraph::GridGraph: every center and edge open, no edge
\* reserved, the initial traversal costs written
NewGrid(w, h, pens) ==
    [w |-> w, h |-> h,
     closedNd |-> [c \in CentersOf(w, h) |-> FALSE],
     closedEdg |-> [e \in InterEdges(w, h) |-> FALSE],
     cost |-> [e \in InterEdges(w, h) |->
                 InitialCost(pens, e[2])],
     res |-> [e \in InterEdges(w, h) |-> {}]]

(***************************************************************************)
(* Node open and close.                                                    *)
(***************************************************************************)
\* closeNode that also sets the raw cost of the edges it closes to infinity
closeNodeSetCost(G, n) ==
    IF G.closedNd[n] THEN G
    ELSE LET at == EdgesAt(G, n)
         IN  [G EXCEPT !.closedEdg = [e \in DOMAIN @ |-> e \in at \/ @[e]],
                       !.cost = [e \in DOMAIN @ |-> IF e \in at THEN INF ELSE @[e]],
                       !.closedNd[n] = TRUE]

\* closeNode that flips the center's flag instead of testing and setting it
closeNodeFlip(G, n) ==
    LET at == EdgesAt(G, n)
    IN  [G EXCEPT !.closedEdg = [e \in DOMAIN @ |-> e \in at \/ @[e]],
                  !.closedNd[n] = ~@]

\* GridGraph::closeNode
closeNode(G, n) ==
    IF G.closedNd[n] THEN G
    ELSE LET at == EdgesAt(G, n)
         IN  [G EXCEPT !.closedEdg = [e \in DOMAIN @ |-> e \in at \/ @[e]],
                       !.closedNd[n] = TRUE]

\* openNode without the test of the reserved edges
openNodeAnyRes(G, n) ==
    IF ~G.closedNd[n] THEN G
    ELSE LET at == EdgesAt(G, n)
         IN  [G EXCEPT !.closedEdg =
                          [e \in DOMAIN @ |->
                             IF /\ e \in at
                                /\ \A c \in EndsOf(G, e) : ~(c # n /\ G.closedNd[c])
                             THEN FALSE ELSE @[e]],
                       !.closedNd[n] = FALSE]

\* GridGraph::openNode: an edge is opened when the neighbour on it is not
\* closed and no input edge is reserved on it
openNode(G, n) ==
    IF ~G.closedNd[n] THEN G
    ELSE LET at == EdgesAt(G, n)
         IN  [G EXCEPT !.closedEdg =
                          [e \in DOMAIN @ |->
                             IF /\ e \in at
                                /\ \A c \in EndsOf(G, e) : ~(c # n /\ G.closedNd[c])
                                /\ G.res[e] = {}
                             THEN FALSE ELSE @[e]],
                       !.closedNd[n] = FALSE]

\* GridEdgePL::setCost(rawCost() + x) on doubles: infinity stays infinity
CostPlus(c, x) == IF c = INF THEN INF ELSE c + x

(***************************************************************************)
(* balanceEdge                                                             *)
(***************************************************************************)
\* GridGraph::getNEdge(a, b): the direction of the edge from a to b
DirTo(G, a, b) == CHOOSE i \in Dirs : getNeighbor(G, a, i) = b

IsNeighbor(G, a, b) == \E i \in Dirs : getNeighbor(G, a, i) = b

\* balanceEdge without the block of the crossing diagonal
balanceEdgeNoCross(G, a, b) ==
    IF a = b THEN G
    ELSE closeNode(closeNode([G EXCEPT !.cost[EdgOf(G, a, DirTo(G, a, b))] = INF], a), b)

\* GridGraph::balanceEdge, for b a neighbour of a, or a itself
balanceEdge(G, a, b) ==
    IF a = b THEN G
    ELSE LET dir == DirTo(G, a, b)
             G1 == [G EXCEPT !.cost[EdgOf(G, a, dir)] = INF]
             G2 == closeNode(G1, a)
             G3 == closeNode(G2, b)
             na == getNeighbor(G, a, (dir + 7) % 8)
             nb == getNeighbor(G, a, (dir + 1) % 8)
         IN  IF dir % 2 = 1 /\ na # NoNode /\ nb # NoNode
             THEN [G3 EXCEPT !.cost[EdgOf(G, na, DirTo(G, na, nb))] = INF]
             ELSE G3

(***************************************************************************)
(* Reversible cost vectors.  A NodeCost is a function Dirs -> cost.        *)
(***************************************************************************)
ZeroCost == [i \in Dirs |-> 0]

\* "addC[i] < -1": the slot closes its direction (-1 is -10 tenths)
IsClosing(v) == v < -10

\* one turn of GridGraph::addCostVector's loop, for direction i:
\* S is [g |-> grid, inv |-> the inverse vector so far]
addCostStep(S, n, addC, i) ==
    LET G == S.g
        neigh == getNeighbor(G, n, i)
        e == EdgOf(G, n, i)
    IN  IF neigh = NoNode THEN S
        ELSE IF IsClosing(addC[i])
        THEN IF G.closedEdg[e]
             THEN [S EXCEPT !.inv[i] = 0]
             ELSE [g |-> closeNode([G EXCEPT !.closedEdg[e] = TRUE], neigh),
                   inv |-> [S.inv EXCEPT ![i] = addC[i]]]
        ELSE [g |-> [G EXCEPT !.cost[e] = CostPlus(@, addC[i])],
              inv |-> [S.inv EXCEPT ![i] = addC[i]]]

RECURSIVE addCostLoop(_, _, _, _)
addCostLoop(S, n, addC, i) ==
    IF i = 8 THEN S ELSE addCostLoop(addCostStep(S, n, addC, i), n, addC, i + 1)

\* GridGraph::addCostVector: [g |-> the grid after, inv |-> invCost]
addCostVector(G, n, addC) == addCostLoop([g |-> G, inv |-> ZeroCost], n, addC, 0)

\* one turn of GridGraph::removeCostVector's loop
removeCostStep(G, n, addC, i) ==
    LET neigh == getNeighbor(G, n, i)
        e == EdgOf(G, n, i)
    IN  IF neigh = NoNode THEN G
        ELSE IF IsClosing(addC[i])
        THEN openNode([G EXCEPT !.closedEdg[e] = FALSE], neigh)
        ELSE [G EXCEPT !.cost[e] = CostPlus(@, -addC[i])]

RECURSIVE removeCostLoop(_, _, _, _)
removeCostLoop(G, n, addC, i) ==
    IF i = 8 THEN G ELSE removeCostLoop(removeCostStep(G, n, addC, i), n, addC, i + 1)

\* GridGraph::removeCostVector
removeCostVector(G, n, addC) == removeCostLoop(G, n, addC, 0)

\* the cost vectors the router may hand to addCostVector: at most MaxSlots
\* slots are not zero, each additive or the sentinel
RECURSIVE VecsUpTo(_)
VecsUpTo(k) ==
    IF k = 0 THEN {ZeroCost}
    ELSE {[v EXCEPT ![i] = x] : v \in VecsUpTo(k - 1), i \in Dirs,
                                 x \in AddVals \cup {Sentinel}} \cup VecsUpTo(k - 1)
NodeCosts == VecsUpTo(MaxSlots)

(***************************************************************************)
(* Construction: GridGraph::GridGraph and writeNd, on the graph of nodes   *)
(* <<x, y, k>> (k = 8 the center, k < 8 its port k) and edges              *)
(* [a, b, kind, cost].                                                     *)
(***************************************************************************)
CenterNd(x, y) == <<x, y, 8>>
PortNd(x, y, i) == <<x, y, i>>

\* the in-node loop's "deg" for ports i < j, with the source's int arithmetic:
\* abs((((d + 4) % 8) + 8) % 8 - 4) for d = i - j
BendDegNoWrap(i, j) == Abs(i - j)
BendDeg(i, j) == Abs(CMod(CMod((i - j) + 4, 8) + 8, 8) - 4)

\* the in-node loop's "pen" with c_90 lacking its p_90 term
BendPenNoP90(pens, deg) ==
    IF deg = 3 THEN pens.p_45 ELSE pens.p_45 - pens.p_135

\* the in-node loop's "pen" with the tests for 135 and 90 degrees exchanged
BendPenSwapped(pens, deg) ==
    IF deg = 2 THEN pens.p_45
    ELSE IF deg = 3 THEN pens.p_45 - pens.p_135 + pens.p_90
    ELSE pens.p_45 - pens.p_135

\* the in-node loop's "pen": c_0, then c_90 for deg 2, then c_135 for deg 3
BendPen(pens, deg) ==
    LET c_0 == pens.p_45 - pens.p_135
        c_135 == pens.p_45
        c_90 == (pens.p_45 - pens.p_135) + pens.p_90
        pen == IF deg = 2 THEN c_90 ELSE c_0
    IN  IF deg = 3 THEN c_135 ELSE pen

\* util::graph's addEdg: a no-op when an edge between a and b exists
addEdg(E, a, b, kind, cost) ==
    IF \E e \in E : {e.a, e.b} = {a, b} THEN E
    ELSE E \cup {[a |-> a, b |-> b, kind |-> kind, cost |-> cost]}

\* GridGraph::writeNd on the graph B = [nodes, edges]: the center, its 8 ports
\* with their port-to-center edges, and the in-node connections
writeNd(B, pens, x, y) ==
    [nodes |-> B.nodes \cup {CenterNd(x, y)} \cup {PortNd(x, y, i) : i \in Dirs},
     edges |-> B.edges
        \cup {[a |-> CenterNd(x, y), b |-> PortNd(x, y, i), kind |-> "sink", cost |-> INF] :
                i \in Dirs}
        \cup {[a |-> PortNd(x, y, ij[1]), b |-> PortNd(x, y, ij[2]), kind |-> "bend",
               cost |-> BendPen(pens, BendDeg(ij[1], ij[2]))] :
                ij \in {q \in Dirs \X Dirs : q[1] < q[2] /\ BendDeg(q[1], q[2]) # 1}}]

\* C++ integer division, which truncates towards zero (b > 0)
CDiv(a, b) == IF a >= 0 THEN a \div b ELSE -((-a) \div b)

\* writeNd's unit offsets of port i
PortXi(i) ==
    LET xi == CMod(4 - CMod(i, 8), 4)
    IN  CDiv(xi, Abs(Abs(xi) - 1) + 1)

PortYi(i) ==
    LET yi == CMod(4 - CMod(i + 2, 8), 4)
    IN  CDiv(yi, Abs(Abs(yi) - 1) + 1)

\* the cell sizes and spacers the grid is constructed with: a spacer below and
\* a spacer above half of either cell size
CellSizes == {2, 4}
Spacers == {1, 3}

\* the constructor's cut-off of its parameter spacer
cutOffSpacer(cellSize, spacer) == IF 2 * spacer > cellSize THEN cellSize \div 2 ELSE spacer

\* the positions writeNd(x, y, 0, 0) gives the center and the ports of a cell,
\* with the member _spacer; the bounding box's lower left corner is the origin
writeNdGeom(P, cellSize, mSpacer, x, y) ==
    LET xPos == x * cellSize
        yPos == y * cellSize
        new == {CenterNd(x, y)} \cup {PortNd(x, y, i) : i \in Dirs}
    IN  [nd \in DOMAIN P \cup new |->
            IF nd \in new
            THEN IF nd[3] = 8 THEN <<xPos, yPos>>
                 ELSE <<xPos + PortXi(nd[3]) * mSpacer, yPos + PortYi(nd[3]) * mSpacer>>
            ELSE P[nd]]

\* one turn of the constructor's second loop, for cell (x, y) and port p
addInterEdge(B, w, h, x, y, p) ==
    LET toN == getNeighbor([w |-> w, h |-> h], <<x, y>>, p)
    IN  IF toN = NoNode THEN B
        ELSE [B EXCEPT !.edges =
                 addEdg(@, PortNd(x, y, p), PortNd(toN[1], toN[2], (p + 4) % 8), "inter", 0)]

\* one turn of GridGraph::writeInitialCosts's loop
writeInitialCost(B, pens, w, h, x, y, i) ==
    LET neigh == getNeighbor([w |-> w, h |-> h], <<x, y>>, i)
    IN  IF neigh = NoNode THEN B
        ELSE [B EXCEPT !.edges =
                 {IF {e.a, e.b} = {PortNd(x, y, i), PortNd(neigh[1], neigh[2], (i + 4) % 8)}
                  THEN [e EXCEPT !.cost = InitialCost(pens, i)] ELSE e : e \in @}]

(***************************************************************************)
(* The line-ordering ILP (ILPOptimizer.cpp).  An optimisation graph is a   *)
(* record: g the nodes of the component in iteration order, adj the        *)
(* adjacency list of every node, from the start node of every segment,     *)
(* lines the lines of every segment (each with its relatives), card the    *)
(* cardinality of every segment, etgs its edge-trip-groups, etgLines the   *)
(* original lines of every edge-trip-group in their order, mirror the      *)
(* orientation the crossing test uses.                                     *)
(***************************************************************************)
Line(l) == [line |-> l, relatives |-> <<l>>]
Etg(e, o, d, c) == [etg |-> e, order |-> o, dir |-> d, wasCut |-> c]

\* two segments in a row that carry the same two lines; the second one is made
\* of three edge-trip-groups, one against the reference direction, one cut
OgChain ==
    [g |-> <<"n1", "n2", "n3">>,
     adj |-> [n \in {"n1", "n2", "n3"} |->
                IF n = "n1" THEN <<"a">> ELSE IF n = "n2" THEN <<"a", "b">> ELSE <<"b">>],
     from |-> [e \in {"a", "b"} |-> IF e = "a" THEN "n1" ELSE "n2"],
     lines |-> [e \in {"a", "b"} |-> <<Line("L1"), Line("L2")>>],
     card |-> [e \in {"a", "b"} |-> 2],
     etgs |-> [e \in {"a", "b"} |->
                IF e = "a" THEN <<Etg("e1", 0, FALSE, FALSE)>>
                ELSE <<Etg("e2", 0, TRUE, FALSE), Etg("e3", 0, FALSE, FALSE),
                       Etg("e4", 0, TRUE, TRUE)>>],
     etgLines |-> [e \in {"e1", "e2", "e3", "e4"} |-> <<"L1", "L2">>],
     mirror |-> FALSE]

\* a segment of two lines that part into two segments at n2
OgFork ==
    [g |-> <<"n1", "n2", "n3", "n4">>,
     adj |-> [n \in {"n1", "n2", "n3", "n4"} |->
                IF n = "n1" THEN <<"a">> ELSE IF n = "n2" THEN <<"a", "b", "c">>
                ELSE IF n = "n3" THEN <<"b">> ELSE <<"c">>],
     from |-> [e \in {"a", "b", "c"} |-> IF e = "a" THEN "n1" ELSE "n2"],
     lines |-> [e \in {"a", "b", "c"} |->
                IF e = "a" THEN <<Line("L1"), Line("L2")>>
                ELSE IF e = "b" THEN <<Line("L1")>> ELSE <<Line("L2")>>],
     card |-> [e \in {"a", "b", "c"} |-> IF e = "a" THEN 2 ELSE 1],
     etgs |-> [e \in {"a", "b", "c"} |->
                IF e = "a" THEN <<Etg("e1", 0, TRUE, FALSE)>>
                ELSE IF e = "b" THEN <<Etg("e2", 0, TRUE, FALSE)>>
                ELSE <<Etg("e3", 0, FALSE, FALSE)>>],
     etgLines |-> [e \in {"e1", "e2", "e3"} |->
                IF e = "e1" THEN <<"L1", "L2">> ELSE IF e = "e2" THEN <<"L1">> ELSE <<"L2">>],
     mirror |-> TRUE]

\* one segment of three lines, the first a collapsed line of two relatives
OgWide ==
    [g |-> <<"n1", "n2">>,
     adj |-> [n \in {"n1", "n2"} |-> <<"a">>],
     from |-> [e \in {"a"} |-> "n1"],
     lines |-> [e \in {"a"} |->
                <<[line |-> "L1", relatives |-> <<"L1", "L4">>], Line("L2"), Line("L3")>>],
     card |-> [e \in {"a"} |-> 3],
     etgs |-> [e \in {"a"} |-> <<Etg("e1", 0, TRUE, FALSE)>>],
     etgLines |-> [e \in {"e1"} |-> <<"L1", "L2", "L3", "L4">>],
     mirror |-> FALSE]

\* one segment with two lines and three slots: no assignment is feasible
OgSpare ==
    [g |-> <<"n1", "n2">>,
     adj |-> [n \in {"n1", "n2"} |-> <<"a">>],
     from |-> [e \in {"a"} |-> "n1"],
     lines |-> [e \in {"a"} |-> <<Line("L1"), Line("L2")>>],
     card |-> [e \in {"a"} |-> 3],
     etgs |-> [e \in {"a"} |-> <<Etg("e1", 0, TRUE, FALSE)>>],
     etgLines |-> [e \in {"e1"} |-> <<"L1", "L2">>],
     mirror |-> FALSE]

OptGraphs == {OgChain, OgFork, OgWide, OgSpare}

\* ILPSolver: rows and columns are numbered from 0 in the order they are added
NewLP == [rows |-> <<>>, cols |-> <<>>]
getNumConstrs(lp) == Len(lp.rows)
addRow(lp, rhs, type) ==
    [lp EXCEPT !.rows = Append(@, [rhs |-> rhs, type |-> type, coef |-> {}])]
addCol(lp, name, obj) == [lp EXCEPT !.cols = Append(@, [name |-> name, obj |-> obj])]
addColToRow(lp, row, col, c) == [lp EXCEPT !.rows[row + 1].coef = @ \cup {<<col, c>>}]
getVarByName(lp, name) ==
    IF \E i \in 1 .. Len(lp.cols) : lp.cols[i].name = name
    THEN (CHOOSE i \in 1 .. Len(lp.cols) : lp.cols[i].name = name) - 1
    ELSE -1

\* ILPOptimizer::getILPVarName
getILPVarName(seg, r, p) == <<"x", seg, r, p>>

\* createProblem's innermost loop body: the column of line l at position p,
\* entered in the row of l and in the row of p
addLineCol(lp, e, l, row, rowA, p) ==
    LET curCol == Len(lp.cols)
        lp1 == addCol(lp, getILPVarName(e, l, p), 0)
        lp2 == addColToRow(lp1, row, curCol, 1)
    IN  addColToRow(lp2, rowA + p, curCol, 1)

RECURSIVE addLineCols(_, _, _, _, _, _, _)
addLineCols(lp, G, e, l, row, rowA, p) ==
    IF p >= G.card[e] THEN lp
    ELSE addLineCols(addLineCol(lp, e, l, row, rowA, p), G, e, l, row, rowA, p + 1)

\* createProblem's loop over the lines of e, from the k-th on
RECURSIVE addLines(_, _, _, _, _)
addLines(lp, G, e, rowA, k) ==
    IF k > Len(G.lines[e]) THEN lp
    ELSE addLines(addLineCols(addRow(lp, 1, "FIX"), G, e, G.lines[e][k].line,
                              getNumConstrs(lp), rowA, 0),
                  G, e, rowA, k + 1)

\* the rows of the positions as upper bounds instead of equations
RECURSIVE addPosRowsUp(_, _)
addPosRowsUp(lp, k) == IF k = 0 THEN lp ELSE addPosRowsUp(addRow(lp, 1, "UP"), k - 1)

\* createProblem's first loop for a segment: a row "= 1" per position
RECURSIVE addPosRows(_, _)
addPosRows(lp, k) == IF k = 0 THEN lp ELSE addPosRows(addRow(lp, 1, "FIX"), k - 1)

\* createProblem's loop body for segment e: a row per position, then a row and
\* the columns per line
createSegment(lp, G, e) ==
    addLines(addPosRows(lp, G.card[e]), G, e, getNumConstrs(lp), 1)

\* the segments createProblem and getConfigurationFromSolution visit, in order:
\* for every node of g, the segments of its adjacency list that start at it
RECURSIVE SegsFrom(_, _, _)
SegsFrom(G, n, k) ==
    IF k > Len(G.adj[n]) THEN <<>>
    ELSE (IF G.from[G.adj[n][k]] = n THEN <<G.adj[n][k]>> ELSE <<>>) \o SegsFrom(G, n, k + 1)

RECURSIVE SegsOf(_, _)
SegsOf(G, k) == IF k > Len(G.g) THEN <<>> ELSE SegsFrom(G, G.g[k], 1) \o SegsOf(G, k + 1)

\* nested for loops visit their index tuples in lexicographic order
LexLess(s, t) ==
    \E k \in 1 .. Len(s) : s[k] < t[k] /\ \A j \in 1 .. (k - 1) : s[j] = t[j]

RECURSIVE SortLex(_)
SortLex(S) ==
    IF S = {} THEN <<>>
    ELSE LET m == CHOOSE x \in S : \A y \in S \ {x} : LexLess(x, y)
         IN  <<m>> \o SortLex(S \ {m})

\* OptEdgePL::getLines as a set of Line pointers
LinesOf(G, e) == {G.lines[e][k].line : k \in 1 .. Len(G.lines[e])}

\* the scorer's crossing penalties of a node
getCrossingPenaltySameSeg(n) == 4
getCrossingPenaltyDiffSeg(n) == 1

\* getLinePairs(segment): the pairs of lines of the segment, by their indices
getLinePairs(G, e) ==
    {ij \in (1 .. Len(G.lines[e])) \X (1 .. Len(G.lines[e])) : ij[1] < ij[2]}

\* getEdgePartners(node, segmentA, linepair): the other segments at the node
\* that both lines continue in, by their indices in the adjacency list
getEdgePartners(G, node, segA, l1, l2) ==
    {k \in 1 .. Len(G.adj[node]) :
        /\ G.adj[node][k] # segA
        /\ l1 \in LinesOf(G, G.adj[node][k])
        /\ l2 \in LinesOf(G, G.adj[node][k])}

\* getEdgePartnerPairs(node, segmentA, linepair): the pairs of other segments
\* at the node in which the two lines continue apart
getEdgePartnerPairs(G, node, segA, l1, l2) ==
    {bc \in (1 .. Len(G.adj[node])) \X (1 .. Len(G.adj[node])) :
        /\ bc[1] # bc[2]
        /\ G.adj[node][bc[1]] # segA /\ G.adj[node][bc[2]] # segA
        /\ l1 \in LinesOf(G, G.adj[node][bc[1]])
        /\ l2 \in LinesOf(G, G.adj[node][bc[2]])
        /\ l2 \notin LinesOf(G, G.adj[node][bc[1]])
        /\ l1 \notin LinesOf(G, G.adj[node][bc[2]])}

\* the crossing oracle for two lines that continue together from a to b:
\* pc = <<<<posLineAinA, posLineAinB>>, <<posLineBinA, posLineBinB>>>>
crossesSame(G, pc) == ((pc[1][1] < pc[2][1]) = (pc[1][2] < pc[2][2])) = G.mirror

\* the crossing oracle for two lines that part after a: pc = <<posLineAinA, posLineBinA>>
crossesDiff(G, pc) == (pc[1] < pc[2]) = G.mirror

\* ILPOptimizer::getPositionCombinations(a, b)
getPositionCombinations2(G, a, b) ==
    LET S == SortLex({q \in (0 .. (G.card[a] - 1)) \X (0 .. (G.card[a] - 1))
                             \X (0 .. (G.card[b] - 1)) \X (0 .. (G.card[b] - 1)) :
                         q[1] # q[2] /\ q[3] # q[4]})
    IN  [k \in 1 .. Len(S) |-> <<<<S[k][1], S[k][3]>>, <<S[k][2], S[k][4]>>>>]

\* ILPOptimizer::getPositionCombinations(a)
getPositionCombinations1(G, a) ==
    SortLex({q \in (0 .. (G.card[a] - 1)) \X (0 .. (G.card[a] - 1)) : q[1] # q[2]})

\* the row of one crossing position combination with the bound 4 instead of 3
sameSegRowBound4(lp, decisionVar, a, b, l1, l2, pc) ==
    LET row == getNumConstrs(lp)
        lp0 == addRow(lp, 4, "UP")
        lp1 == addColToRow(lp0, row, getVarByName(lp, getILPVarName(a, l1, pc[1][1])), 1)
        lp2 == addColToRow(lp1, row, getVarByName(lp, getILPVarName(a, l2, pc[2][1])), 1)
        lp3 == addColToRow(lp2, row, getVarByName(lp, getILPVarName(b, l1, pc[1][2])), 1)
        lp4 == addColToRow(lp3, row, getVarByName(lp, getILPVarName(b, l2, pc[2][2])), 1)
    IN  addColToRow(lp4, row, decisionVar, -1)

\* writeSameSegConstraints: the row "dec_sum" of one crossing position combination
sameSegRow(lp, decisionVar, a, b, l1, l2, pc) ==
    LET row == getNumConstrs(lp)
        lp0 == addRow(lp, 3, "UP")
        lp1 == addColToRow(lp0, row, getVarByName(lp, getILPVarName(a, l1, pc[1][1])), 1)
        lp2 == addColToRow(lp1, row, getVarByName(lp, getILPVarName(a, l2, pc[2][1])), 1)
        lp3 == addColToRow(lp2, row, getVarByName(lp, getILPVarName(b, l1, pc[1][2])), 1)
        lp4 == addColToRow(lp3, row, getVarByName(lp, getILPVarName(b, l2, pc[2][2])), 1)
    IN  addColToRow(lp4, row, decisionVar, -1)

RECURSIVE sameSegRows(_, _, _, _, _, _, _, _, _)
sameSegRows(lp, G, decisionVar, a, b, l1, l2, pcs, k) ==
    IF k > Len(pcs) THEN lp
    ELSE sameSegRows(IF crossesSame(G, pcs[k])
                     THEN sameSegRow(lp, decisionVar, a, b, l1, l2, pcs[k]) ELSE lp,
                     G, decisionVar, a, b, l1, l2, pcs, k + 1)

\* the pairs <<node, segment>> of the loops "for node in g, for segmentA in
\* node's adjacency list", by their indices
AdjIdx(G) == UNION {{<<kn, ia>> : ia \in 1 .. Len(G.adj[G.g[kn]])} : kn \in 1 .. Len(G.g)}
SegAt(G, kn, ia) == G.adj[G.g[kn]][ia]
LineAt(G, e, k) == G.lines[e][k].line

\* the index tuples <<node, segmentA, line 1, line 2>> of the loops over the
\* line pairs of the segments at the nodes
LinePairIdx(G) ==
    UNION {{<<na[1], na[2], ij[1], ij[2]>> : ij \in getLinePairs(G, SegAt(G, na[1], na[2]))} :
           na \in AdjIdx(G)}

\* the index tuples <<node, segmentA, line 1, line 2, segmentB>> of
\* writeSameSegConstraints's loops that reach the decision variable: segmentB
\* is a partner that is not in "processed" (segmentA and those before it)
SameSegJobs(G) ==
    UNION {{<<q[1], q[2], q[3], q[4], ib>> :
              ib \in {k \in getEdgePartners(G, G.g[q[1]], SegAt(G, q[1], q[2]),
                                            LineAt(G, SegAt(G, q[1], q[2]), q[3]),
                                            LineAt(G, SegAt(G, q[1], q[2]), q[4])) :
                        SegAt(G, q[1], k) \notin {SegAt(G, q[1], i) : i \in 1 .. q[2]}}} :
           q \in LinePairIdx(G)}

\* writeSameSegConstraints's loop body for one job: the decision variable, then
\* a row for every crossing position combination
sameSegJob(lp, G, j) ==
    LET node == G.g[j[1]]
        a == SegAt(G, j[1], j[2])
        b == SegAt(G, j[1], j[5])
        decisionVar == Len(lp.cols)
        lp0 == addCol(lp, <<"x_dec", a, b, LineAt(G, a, j[3]), LineAt(G, a, j[4]), node>>,
                      getCrossingPenaltySameSeg(node) * Len(G.lines[a][j[3]].relatives)
                          * Len(G.lines[a][j[4]].relatives))
    IN  sameSegRows(lp0, G, decisionVar, a, b, LineAt(G, a, j[3]), LineAt(G, a, j[4]),
                    getPositionCombinations2(G, a, b), 1)

RECURSIVE sameSegJobs(_, _, _, _)
sameSegJobs(lp, G, jobs, k) ==
    IF k > Len(jobs) THEN lp ELSE sameSegJobs(sameSegJob(lp, G, jobs[k]), G, jobs, k + 1)

\* ILPOptimizer::writeSameSegConstraints
writeSameSegConstraints(G, lp) == sameSegJobs(lp, G, SortLex(SameSegJobs(G)), 1)

\* writeDiffSegConstraints: the row "dec_sum" of one crossing position combination
diffSegRow(lp, decisionVar, a, l1, l2, pc) ==
    LET row == getNumConstrs(lp)
        lp0 == addRow(lp, 1, "UP")
        lp1 == addColToRow(lp0, row, getVarByName(lp, getILPVarName(a, l1, pc[1])), 1)
        lp2 == addColToRow(lp1, row, getVarByName(lp, getILPVarName(a, l2, pc[2])), 1)
    IN  addColToRow(lp2, row, decisionVar, -1)

RECURSIVE diffSegRows(_, _, _, _, _, _, _, _)
diffSegRows(lp, G, decisionVar, a, l1, l2, pcs, k) ==
    IF k > Len(pcs) THEN lp
    ELSE diffSegRows(IF crossesDiff(G, pcs[k])
                     THEN diffSegRow(lp, decisionVar, a, l1, l2, pcs[k]) ELSE lp,
                     G, decisionVar, a, l1, l2, pcs, k + 1)

\* the index tuples <<node, segmentA, line 1, line 2, segment of line 1,
\* segment of line 2>> of writeDiffSegConstraints's loops
DiffSegJobs(G) ==
    UNION {{<<q[1], q[2], q[3], q[4], bc[1], bc[2]>> :
              bc \in getEdgePartnerPairs(G, G.g[q[1]], SegAt(G, q[1], q[2]),
                                         LineAt(G, SegAt(G, q[1], q[2]), q[3]),
                                         LineAt(G, SegAt(G, q[1], q[2]), q[4]))} :
           q \in LinePairIdx(G)}

\* writeDiffSegConstraints's loop body for one job
diffSegJob(lp, G, j) ==
    LET node == G.g[j[1]]
        a == SegAt(G, j[1], j[2])
        decisionVar == Len(lp.cols)
        lp0 == addCol(lp, <<"x_dec", a, SegAt(G, j[1], j[5]), SegAt(G, j[1], j[6]),
                            LineAt(G, a, j[3]), LineAt(G, a, j[4]), node>>,
                      getCrossingPenaltyDiffSeg(node) * Len(G.lines[a][j[3]].relatives)
                          * Len(G.lines[a][j[4]].relatives))
    IN  diffSegRows(lp0, G, decisionVar, a, LineAt(G, a, j[3]), LineAt(G, a, j[4]),
                    getPositionCombinations1(G, a), 1)

RECURSIVE diffSegJobs(_, _, _, _)
diffSegJobs(lp, G, jobs, k) ==
    IF k > Len(jobs) THEN lp ELSE diffSegJobs(diffSegJob(lp, G, jobs[k]), G, jobs, k + 1)

\* ILPOptimizer::writeDiffSegConstraints
writeDiffSegConstraints(G, lp) == diffSegJobs(lp, G, SortLex(DiffSegJobs(G)), 1)

RECURSIVE createSegments(_, _, _, _)
createSegments(lp, G, segs, k) ==
    IF k > Len(segs) THEN lp ELSE createSegments(createSegment(lp, G, segs[k]), G, segs, k + 1)

\* ILPOptimizer::createProblem
createProblem(G) ==
    writeDiffSegConstraints(G,
        writeSameSegConstraints(G, createSegments(NewLP, G, SegsOf(G, 1), 1)))

\* the value of row r of lp under the assignment v of 0 or 1 to the columns
RowVal(lp, r, v) ==
    Cardinality({c \in lp.rows[r].coef : c[2] = 1 /\ v[c[1] + 1] = 1})
        - Cardinality({c \in lp.rows[r].coef : c[2] = -1 /\ v[c[1] + 1] = 1})

\* v satisfies every row of lp
Feasible(lp, v) ==
    \A r \in 1 .. Len(lp.rows) :
        IF lp.rows[r].type = "FIX" THEN RowVal(lp, r, v) = lp.rows[r].rhs
        ELSE RowVal(lp, r, v) <= lp.rows[r].rhs

\* the assignments of the binary columns of lp, and the feasible ones
Assignments(lp) == [1 .. Len(lp.cols) -> {0, 1}]
Solutions(lp) == {v \in Assignments(lp) : Feasible(lp, v)}

\* ILPSolver::getVarVal
getVarVal(lp, v, name) == v[getVarByName(lp, name) + 1]

\* EdgeTripGeom's linePos(rel): the position of the original line in the
\* edge-trip-group, from 0
linePos(G, etg, rel) ==
    (CHOOSE k \in 1 .. Len(G.etgLines[etg]) : G.etgLines[etg][k] = rel) - 1

\* the order list with p inserted at the front when the directions differ
hcInsertSwapped(list, p, dir, frontDir) ==
    IF dir # frontDir THEN <<p>> \o list ELSE Append(list, p)

\* getConfigurationFromSolution's write of position p into the order list of
\* an edge-trip-group of direction dir, frontDir being that of the segment's
\* first group: "if (!(etgp.dir ^ front().dir)) insert at begin, else push_back"
hcInsert(list, p, dir, frontDir) ==
    IF ~(dir # frontDir) THEN <<p>> \o list ELSE Append(list, p)

RECURSIVE hcInsertRels(_, _, _, _, _, _, _)
hcInsertRels(list, G, etg, rels, dir, frontDir, k) ==
    IF k > Len(rels) THEN list
    ELSE hcInsertRels(hcInsert(list, linePos(G, etg, rels[k]), dir, frontDir),
                      G, etg, rels, dir, frontDir, k + 1)

\* getConfigurationFromSolution's loop over the lines of e for one position tp
\* of one edge-trip-group: S is [hc, found, failed], failed once an assert fails
RECURSIVE extractLines(_, _, _, _, _, _, _, _)
extractLines(S, G, lp, v, e, etgp, tp, k) ==
    IF k > Len(G.lines[e]) THEN S
    ELSE IF getVarVal(lp, v, getILPVarName(e, G.lines[e][k].line, tp)) = 1
    THEN extractLines(
            [hc |-> [S.hc EXCEPT ![<<etgp.etg, etgp.order>>] =
                        hcInsertRels(@, G, etgp.etg, G.lines[e][k].relatives,
                                     etgp.dir, G.etgs[e][1].dir, 1)],
             found |-> TRUE,
             failed |-> S.failed \/ S.found],
            G, lp, v, e, etgp, tp, k + 1)
    ELSE extractLines(S, G, lp, v, e, etgp, tp, k + 1)

\* the index tuples <<segment, edge-trip-group, position>> getConfigurationFromSolution
\* visits: the groups that were not cut, every position of the segment
ExtractIdx(G) ==
    LET segs == SegsOf(G, 1)
    IN  UNION {{<<ks, ke, tp>> : ke \in 1 .. Len(G.etgs[segs[ks]]),
                                 tp \in 0 .. (G.card[segs[ks]] - 1)} :
               ks \in 1 .. Len(segs)}
ExtractWork(G) ==
    LET segs == SegsOf(G, 1)
    IN  SortLex({q \in ExtractIdx(G) : ~G.etgs[segs[q[1]]][q[2]].wasCut})

\* the keys of the hierarchical order configuration
HcKeys(G) ==
    UNION {{<<G.etgs[e][k].etg, G.etgs[e][k].order>> : k \in 1 .. Len(G.etgs[e])} :
           e \in DOMAIN G.etgs}

(***************************************************************************)
(* Settlement and candidate queries.  Lengths are integers and distances   *)
(* are compared by their squares.                                          *)
(***************************************************************************)
\* the constructor's cellSize
CellSize == 2

\* the position writeNd gives the center of cell (x, y); the bounding box's
\* lower left corner is the origin
CenterGeom(n) == <<n[1] * CellSize, n[2] * CellSize>>

\* the input (comb) nodes and their positions: u on a center, v off the grid's
\* axes, at the same distance from two centers
CombNodes == {"u", "v"}

CombGeom(cn) == IF cn = "u" THEN <<0, 0>> ELSE <<3, 1>>

\* the values of maxDis the router asks with
MaxDs == {1, 2, 3}

Dist2(p, q) == (p[1] - q[1]) * (p[1] - q[1]) + (p[2] - q[2]) * (p[2] - q[2])

\* Grid::get(box): the centers in the box
gridGet(G, lo, hi) ==
    {n \in DOMAIN G.closedNd :
        /\ lo[1] <= CenterGeom(n)[1] /\ CenterGeom(n)[1] <= hi[1]
        /\ lo[2] <= CenterGeom(n)[2] /\ CenterGeom(n)[2] <= hi[2]}

\* getNearestCandidatesFor without the test of the closed flag
getNearestCandidatesForAny(G, p, maxD) ==
    {n \in gridGet(G, <<p[1] - maxD, p[2] - maxD>>, <<p[1] + maxD, p[2] + maxD>>) :
        Dist2(CenterGeom(n), p) < maxD * maxD}

\* GridGraph::getNearestCandidatesFor: the centers in the queue
getNearestCandidatesFor(G, p, maxD) ==
    {n \in gridGet(G, <<p[1] - maxD, p[2] - maxD>>, <<p[1] + maxD, p[2] + maxD>>) :
        /\ ~G.closedNd[n]
        /\ Dist2(CenterGeom(n), p) < maxD * maxD}

\* the candidates the priority queue can have on top: those of least distance
\* (which of several the queue yields first depends on the insertion order)
Top(cands, p) ==
    {n \in cands : \A m \in cands : Dist2(CenterGeom(n), p) <= Dist2(CenterGeom(m), p)}

\* GridGraph::isSettled
isSettled(S, cn) == cn \in DOMAIN S

\* getGridNodeFrom that skips the settlement map
getGridNodeFromUnsettled(G, S, cn, maxDis) ==
    LET cands == getNearestCandidatesFor(G, CombGeom(cn), maxDis)
    IN  IF cands = {} THEN {NoNode} ELSE Top(cands, CombGeom(cn))

\* GridGraph::getGridNodeFrom: the nodes the call can return (NoNode for 0)
getGridNodeFrom(G, S, cn, maxDis) ==
    IF ~isSettled(S, cn)
    THEN LET cands == getNearestCandidatesFor(G, CombGeom(cn), maxDis)
         IN  IF cands = {} THEN {NoNode} ELSE Top(cands, CombGeom(cn))
    ELSE {S[cn]}

\* GridGraph::getGridNodesTo
getGridNodesTo(G, S, cn, maxDis) ==
    IF ~isSettled(S, cn)
    THEN getNearestCandidatesFor(G, CombGeom(cn), maxDis)
    ELSE {S[cn]}

\* GridGraph::settleGridNode: _settled[cn] = n
settleGridNode(S, n, cn) ==
    [c \in DOMAIN S \cup {cn} |-> IF c = cn THEN n ELSE S[c]]

(***************************************************************************)
(* The spacing penalty.  A NodeCost slot holds its value in tenths,        *)
(* multiplied by SpScale so that the fractions j / dd are whole numbers.   *)
(***************************************************************************)
\* the least common multiple of the denominators dd and ddd (1 .. 7)
SpScale == 420

\* the comb nodes spacingPenalty is called for: the number of their incident
\* edges and their clockwise edge ordering
OrigNodes ==
    {[adj |-> 0, ord |-> <<>>],
     [adj |-> 1, ord |-> <<"e1">>],
     [adj |-> 2, ord |-> <<"e1", "e2">>],
     [adj |-> 4, ord |-> <<"e1", "e2", "e3", "e4">>],
     [adj |-> 9, ord |-> <<"e1", "e2", "e3", "e4", "e5", "e6", "e7", "e8", "e9">>]}

\* the comb edges spacingPenalty is called for; e0 is in no ordering
OrigEdges == {"e0", "e1", "e2"}

\* EdgeOrdering::has
has(ord, e) == \E k \in 1 .. Len(ord) : ord[k] = e

\* EdgeOrdering::dist: the steps clockwise from a to b
dist(ord, a, b) ==
    LET pa == CHOOSE k \in 1 .. Len(ord) : ord[k] = a
        pb == CHOOSE k \in 1 .. Len(ord) : ord[k] = b
    IN  (pb - pa + Len(ord)) % Len(ord)

\* GridGraph::getSettledOutgoingEdges: per direction the first reserved comb
\* edge of the inter-cell edge there, "" for 0
getSettledOutgoingEdges(G, n) ==
    [i \in Dirs |->
        IF getNeighbor(G, n, i) # NoNode /\ G.res[EdgOf(G, n, i)] # {}
        THEN CHOOSE e \in G.res[EdgOf(G, n, i)] : TRUE
        ELSE ""]

\* optimDistance without the subtraction of 1
optimDistancesNoMinus(adj) == IF adj = 0 THEN 0 .. 7 ELSE {(8 \div adj) % 8}

\* (8 / origEdgeNumber) - 1 as a size_t, modulo 8 (2^64 is a multiple of 8); a
\* division by zero is undefined: any value, or no value at all
optimDistances(adj) == IF adj = 0 THEN 0 .. 7 ELSE {((8 \div adj) - 1) % 8}

\* spacingStep without the closing of the dCCw slots counter-clockwise of i
spacingStepNoCCw(addC, pens, ord, od, e, i, f) ==
    LET dCw == dist(ord, f, e) - 1
        dCCw == dist(ord, e, f) - 1
        dd == ((CMod((dCw + 1) + dCw, 8) % 8) * od) % 8
        ddd == CMod(6 - dd, 8)
        pen == (pens.p_45 * 2 - 10) * SpScale
        jCw(s) == IF (s - i) % 8 = 0 THEN 8 ELSE (s - i) % 8
        jCCw(s) == IF (i - s) % 8 = 0 THEN 8 ELSE (i - s) % 8
        a1 == [s \in Dirs |->
                 IF dd # 0 /\ jCw(s) <= dd + 1 /\ ~(addC[s] < -10 * SpScale)
                 THEN addC[s] + (pen * (dd - (jCw(s) - 1))) \div dd
                 ELSE addC[s]]
        a2 == [s \in Dirs |->
                 IF ddd # 0 /\ jCCw(s) <= ddd + 1 /\ ~(a1[s] < -10 * SpScale)
                 THEN a1[s] + (pen * (ddd - (jCCw(s) - 1))) \div ddd
                 ELSE a1[s]]
    IN  [s \in Dirs |->
            IF \/ s = i
               \/ \E j \in 1 .. dCw : s = (i + j) % 8
            THEN Sentinel
            ELSE a2[s]]

\* one turn of spacingPenalty's loop over the directions: outgoing[i] = f
spacingStep(addC, pens, ord, od, e, i, f) ==
    LET dCw == dist(ord, f, e) - 1
        dCCw == dist(ord, e, f) - 1
        dd == ((CMod((dCw + 1) + dCw, 8) % 8) * od) % 8
        ddd == CMod(6 - dd, 8)
        pen == (pens.p_45 * 2 - 10) * SpScale
        jCw(s) == IF (s - i) % 8 = 0 THEN 8 ELSE (s - i) % 8
        jCCw(s) == IF (i - s) % 8 = 0 THEN 8 ELSE (i - s) % 8
        a1 == [s \in Dirs |->
                 IF dd # 0 /\ jCw(s) <= dd + 1 /\ ~(addC[s] < -10 * SpScale)
                 THEN addC[s] + (pen * (dd - (jCw(s) - 1))) \div dd
                 ELSE addC[s]]
        a2 == [s \in Dirs |->
                 IF ddd # 0 /\ jCCw(s) <= ddd + 1 /\ ~(a1[s] < -10 * SpScale)
                 THEN a1[s] + (pen * (ddd - (jCCw(s) - 1))) \div ddd
                 ELSE a1[s]]
    IN  [s \in Dirs |->
            IF \/ s = i
               \/ \E j \in 1 .. dCw : s = (i + j) % 8
               \/ \E j \in 1 .. dCCw : s = (i - j) % 8
            THEN Sentinel
            ELSE a2[s]]

\* spacingPenalty's loop over the directions, from direction i on
RECURSIVE spacingLoop(_, _, _, _, _, _, _)
spacingLoop(addC, pens, ord, od, e, outgoing, i) ==
    IF i > 7 THEN addC
    ELSE spacingLoop(IF outgoing[i] = "" THEN addC
                     ELSE spacingStep(addC, pens, ord, od, e, i, outgoing[i]),
                     pens, ord, od, e, outgoing, i + 1)

\* GridGraph::spacingPenalty: the outcomes of the call.  The quotient
\* 8 / origEdgeNumber is computed first; with no incident edge it is a
\* division by zero, on which the call can fail.
spacingPenalty(G, pens, n, origNode, e) ==
    (IF origNode.adj = 0 THEN {[failed |-> TRUE, addC |-> ZeroCost]} ELSE {})
    \cup {[failed |-> FALSE,
           addC |-> IF ~has(origNode.ord, e) THEN ZeroCost
                    ELSE spacingLoop(ZeroCost, pens, origNode.ord, od, e,
                                     getSettledOutgoingEdges(G, n), 0)] :
            od \in optimDistances(origNode.adj)}

(***************************************************************************)
(* The topological-block penalty.                                          *)
(***************************************************************************)
\* topoBlockPenalty's test of the pair outgoing[i], outgoing[j % 8] with the
\* comparison turned round
topoBlockPairFlipped(addC, ord, e, outgoing, i, j) ==
    IF dist(ord, outgoing[j % 8], e) > dist(ord, outgoing[i], e)
    THEN [s \in Dirs |-> IF \E x \in (i + 1) .. (j - 1) : x % 8 = s THEN Sentinel
                         ELSE addC[s]]
    ELSE addC

\* topoBlockPenalty's test of the pair outgoing[i], outgoing[j % 8]: with
\* db < da every slot strictly between i and j is closed
topoBlockPair(addC, ord, e, outgoing, i, j) ==
    IF dist(ord, outgoing[j % 8], e) < dist(ord, outgoing[i], e)
    THEN [s \in Dirs |-> IF \E x \in (i + 1) .. (j - 1) : x % 8 = s THEN Sentinel
                         ELSE addC[s]]
    ELSE addC

\* topoBlockPenalty's inner loop, from j on
RECURSIVE topoInner(_, _, _, _, _, _)
topoInner(addC, ord, e, outgoing, i, j) ==
    IF j >= i + 8 THEN addC
    ELSE IF outgoing[j % 8] = "" THEN topoInner(addC, ord, e, outgoing, i, j + 1)
    ELSE IF outgoing[j % 8] = outgoing[i] THEN addC
    ELSE topoInner(topoBlockPair(addC, ord, e, outgoing, i, j),
                   ord, e, outgoing, i, j + 1)

\* one turn of topoBlockPenalty's outer loop
topoOuter(addC, ord, e, outgoing, i) ==
    IF outgoing[i] = "" THEN addC ELSE topoInner(addC, ord, e, outgoing, i, i + 1)

\* topoBlockPenalty's outer loop, from i on
RECURSIVE topoLoop(_, _, _, _, _)
topoLoop(addC, ord, e, outgoing, i) ==
    IF i > 7 THEN addC
    ELSE topoLoop(topoOuter(addC, ord, e, outgoing, i), ord, e, outgoing, i + 1)

\* GridGraph::topoBlockPenalty
topoBlockPenalty(G, n, origNode, e) ==
    topoLoop(ZeroCost, origNode.ord, e, getSettledOutgoingEdges(G, n), 0)

\* the comb edges of a comb node's ordering
EdgesIn(ord) == {ord[k] : k \in 1 .. Len(ord)}

\* the arrays getSettledOutgoingEdges can fill for a comb node while e is not
\* routed: up to MaxRouted of the node's other edges, each in one direction
Outgoings(ord, e) ==
    UNION {{[i \in Dirs |-> IF \E f \in R : pl[f] = i
                            THEN CHOOSE f \in R : pl[f] = i ELSE ""] :
              pl \in {q \in [R -> Dirs] : \A f \in R, g \in R : q[f] = q[g] => f = g}} :
           R \in {Q \in SUBSET (EdgesIn(ord) \ {e}) : Cardinality(Q) <= MaxRouted}}

(***************************************************************************)
(* The grid under the router's calls.                                      *)
(***************************************************************************)
VARIABLES
    gg,        \* the GridGraph
    pending,   \* the inverse vectors addCostVector returned, not yet removed
    last,      \* the last call: its name, its centers, whether it changed gg
    nops,      \* the number of calls so far
    bld,       \* a grid under construction: the constructor's position and graph
    walk,      \* a path through a fresh grid: its start, its end and its cost
    ilp,       \* a call of ILPOptimizer::optimizeComp: its position, problem and result
    settled,   \* GridGraph::_settled: the grid node of every settled comb node
    pen        \* a call of a penalty function: its inputs, its loop position, its vector

vars == <<gg, pending, last, nops, bld, walk, ilp, settled, pen>>

\* no penalty is being computed
NoPen == [pc |-> "none"]

\* no component is being optimised
NoILP == [pc |-> "none"]

\* no path is being walked
NoWalk == [pens |-> S1Pens, src |-> NoNode, sp |-> 0, c |-> NoNode, p |-> 0,
           cost |-> 0, bendCost |-> 0, nTrav |-> 0, nE |-> 0]

\* no grid is under construction
NoBuild == [pc |-> "none"]

Centers == CentersOf(GridW, GridH)

Called(op, n, m, G) == [op |-> op, n |-> n, m |-> m, acted |-> G # gg]

Init ==
    /\ gg = NewGrid(GridW, GridH, S1Pens)
    /\ pending = <<>>
    /\ last = [op |-> "new", n |-> NoNode, m |-> NoNode, acted |-> FALSE]
    /\ nops = 0
    /\ bld = NoBuild
    /\ walk = NoWalk
    /\ ilp = NoILP
    /\ settled = <<>>
    /\ pen = NoPen

CloseNode(n) ==
    /\ nops < MaxOps
    /\ gg' = closeNode(gg, n)
    /\ last' = Called("closeNode", n, NoNode, gg')
    /\ nops' = nops + 1
    /\ UNCHANGED <<pending, bld, walk, ilp, settled, pen>>

OpenNode(n) ==
    /\ nops < MaxOps
    /\ gg' = openNode(gg, n)
    /\ last' = Called("openNode", n, NoNode, gg')
    /\ nops' = nops + 1
    /\ UNCHANGED <<pending, bld, walk, ilp, settled, pen>>

\* balanceEdge dereferences getNEdge(a, b): b is a neighbour of a, or a itself
BalanceEdge(a, b) ==
    /\ nops < MaxOps
    /\ a = b \/ IsNeighbor(gg, a, b)
    /\ gg' = balanceEdge(gg, a, b)
    /\ last' = Called("balanceEdge", a, b, gg')
    /\ nops' = nops + 1
    /\ UNCHANGED <<pending, bld, walk, ilp, settled, pen>>

\* the router's addCostVector; it keeps the inverse vector for the rollback
AddCostVector(n, c) ==
    /\ nops < MaxOps
    /\ \A i \in Dirs : c[i] # 0 => getNeighbor(gg, n, i) # NoNode
    /\ LET r == addCostVector(gg, n, c)
       IN  /\ gg' = r.g
           /\ pending' = Append(pending, [n |-> n, inv |-> r.inv])
    /\ last' = Called("addCostVector", n, NoNode, gg')
    /\ nops' = nops + 1
    /\ UNCHANGED <<bld, walk, ilp, settled, pen>>

\* the router's rollback: removeCostVector with a vector addCostVector returned
RemoveCostVector(k) ==
    /\ nops < MaxOps
    /\ k \in 1 .. Len(pending)
    /\ gg' = removeCostVector(gg, pending[k].n, pending[k].inv)
    /\ pending' = [j \in 1 .. (Len(pending) - 1) |->
                     IF j < k THEN pending[j] ELSE pending[j + 1]]
    /\ last' = Called("removeCostVector", pending[k].n, NoNode, gg')
    /\ nops' = nops + 1
    /\ UNCHANGED <<bld, walk, ilp, settled, pen>>

\* the router reserves a grid edge of a settled path for input edge ce
\* (GridEdgePL::addResEdge); the path's edges are closed by then
Reserve(e, ce) ==
    /\ nops < MaxOps
    /\ gg.closedEdg[e]
    /\ ce \notin gg.res[e]
    /\ gg' = [gg EXCEPT !.res[e] = @ \cup {ce}]
    /\ last' = Called("reserve", e[1], NoNode, gg')
    /\ nops' = nops + 1
    /\ UNCHANGED <<pending, bld, walk, ilp, settled, pen>>

Next ==
    \/ \E n \in Centers : CloseNode(n)
    \/ \E n \in Centers : OpenNode(n)
    \/ \E a \in Centers, b \in Centers : BalanceEdge(a, b)
    \/ \E n \in Centers, c \in NodeCosts : AddCostVector(n, c)
    \/ \E k \in 1 .. MaxOps : RemoveCostVector(k)
    \/ \E e \in DOMAIN gg.res, ce \in CombEdges : Reserve(e, ce)

Spec == Init /\ [][Next]_vars

(***************************************************************************)
(* Properties of the grid operations.                                      *)
(***************************************************************************)
\* the inter-cell edges of G whose raw cost or closed flag differs in H
EdgesChanged(G, H) ==
    {e \in DOMAIN G.cost : G.cost[e] # H.cost[e] \/ G.closedEdg[e] # H.closedEdg[e]}

\* the edges an apply at n touches: those at n's ports and those it closed
\* at the far neighbours
Touched(G, n, H) == EdgesAt(G, n) \cup {e \in DOMAIN G.cost : ~G.closedEdg[e] /\ H.closedEdg[e]}

\* C1: for every reachable grid, center n and cost vector c, addCostVector(n, c)
\* followed by removeCostVector(n, inv) leaves every touched inter-cell edge with
\* the raw cost and the closed flag it had before.
C1_RoundTrip ==
    \A n \in Centers, c \in NodeCosts :
        (\A i \in Dirs : c[i] # 0 => getNeighbor(gg, n, i) # NoNode) =>
        LET r == addCostVector(gg, n, c)
            H == removeCostVector(r.g, n, r.inv)
        IN  Touched(gg, n, r.g) \cap EdgesChanged(gg, H) = {}

\* a cost vector the router may hand to addCostVector at n: a slot without a
\* neighbour holds 0
FitsAt(G, n, c) == \A i \in Dirs : c[i] # 0 => getNeighbor(G, n, i) # NoNode

\* C25: no call changes an inter-cell edge from closed to open while an input
\* edge is in its reserved set; removeCostVector of a sentinel slot leaves an
\* edge closed that was reserved after addCostVector closed it.
C25_ReservedGateReopening ==
    [][\A e \in DOMAIN gg.res :
          (gg.res[e] # {} /\ gg.closedEdg[e]) => gg'.closedEdg[e]]_vars

\* the nested pair of calls at n1 and n2 leaves the grid G as it was
NestedRestores(G, n1, c1, n2, c2) ==
    LET r1 == addCostVector(G, n1, c1)
    IN  /\ DOMAIN r1.g.cost = DOMAIN G.cost
        /\ LET r2 == addCostVector(r1.g, n2, c2)
               G3 == removeCostVector(r2.g, n2, r2.inv)
               H == removeCostVector(G3, n1, r1.inv)
           IN  /\ DOMAIN r2.g.cost = DOMAIN G.cost
               /\ DOMAIN G3.cost = DOMAIN G.cost
               /\ H.closedNd = G.closedNd
               /\ H.closedEdg = G.closedEdg
               /\ H.cost = G.cost

\* C26: for every grid a rollback has left, centers n1, n2 and cost vectors
\* c1, c2, inv1 := addCostVector(n1, c1); inv2 := addCostVector(n2, c2);
\* removeCostVector(n2, inv2); removeCostVector(n1, inv1) leaves every center
\* with the closed flag and every inter-cell edge with the closed flag and the
\* raw cost it had before the first call.
C26_NestedLIFO ==
    last.op = "removeCostVector" =>
        \A n1 \in Centers, c1 \in NodeCosts, n2 \in Centers, c2 \in NodeCosts :
            (FitsAt(gg, n1, c1) /\ FitsAt(gg, n2, c2)) =>
                NestedRestores(gg, n1, c1, n2, c2)

\* C27: for every reachable grid and two distinct neighbouring centers a, b,
\* after balanceEdge(a, b) the inter-cell edge between a and b costs infinity,
\* a and b are closed and every inter-cell edge at a or at b is closed;
\* balanceEdge(a, a) leaves the grid as it is.
C27_BalanceEdgeCommit ==
    \A a \in Centers :
        /\ balanceEdge(gg, a, a) = gg
        /\ \A b \in Centers :
              (a # b /\ IsNeighbor(gg, a, b)) =>
                  LET H == balanceEdge(gg, a, b)
                  IN  /\ H.cost[EdgOf(gg, a, DirTo(gg, a, b))] = INF
                      /\ H.closedNd[a] /\ H.closedNd[b]
                      /\ \A e \in EdgesAt(gg, a) \cup EdgesAt(gg, b) : H.closedEdg[e]

\* invariant I3 of a grid
I3(G) == \A c \in DOMAIN G.closedNd : G.closedNd[c] => \A e \in EdgesAt(G, c) : G.closedEdg[e]

\* C2: in every reachable state a closed center has all its inter-cell edges closed.
C2_ClosedCenterClosedEdges == I3(gg)

C4_Idempotent ==
    \A n \in Centers :
        /\ closeNode(closeNode(gg, n), n) = closeNode(gg, n)
        /\ openNode(openNode(gg, n), n) = openNode(gg, n)

\* a call of closeNode or openNode that changed the grid, and whose repetition would not
C4_Witness ==
    /\ last.op \in {"closeNode", "openNode"} /\ last.acted
    /\ closeNode(gg, last.n) = gg \/ openNode(gg, last.n) = gg

\* C5: for n open, closeNode(n) then openNode(n) restores n's closed flag and the
\* closed flag of every inter-cell edge.
C5_OpenInvertsClose ==
    \A n \in Centers :
        ~gg.closedNd[n] =>
            LET H == openNode(closeNode(gg, n), n)
            IN  H.closedNd[n] = gg.closedNd[n] /\ H.closedEdg = gg.closedEdg

\* the edge balanceEdge(a, b) blocks for a diagonal b: between a's neighbours
\* in directions (d + 7) % 8 and (d + 1) % 8
CrossEdge(G, a, b) ==
    LET d == DirTo(G, a, b)
        na == getNeighbor(G, a, (d + 7) % 8)
    IN  EdgOf(G, na, DirTo(G, na, getNeighbor(G, a, (d + 1) % 8)))

IsDiagonal(G, a, b) == \E d \in {1, 3, 5, 7} : getNeighbor(G, a, d) = b

\* C6 as claimed: after balanceEdge(a, b) for a diagonal neighbour b the crossing
\* edge has its closed flag set.
C6_CrossEdgeClosedFlag ==
    (last.op = "balanceEdge" /\ IsDiagonal(gg, last.n, last.m))
        => gg.closedEdg[CrossEdge(gg, last.n, last.m)]

\* C6: balanceEdge(a, b) for a diagonal neighbour b sets the raw cost of
\* the crossing edge to infinity and leaves its closed flag as it was.
C6_CrossEdgeInfinite ==
    \A a \in Centers, b \in Centers :
        IsDiagonal(gg, a, b) =>
            LET H == balanceEdge(gg, a, b)
                e == CrossEdge(gg, a, b)
            IN  H.cost[e] = INF /\ H.closedEdg[e] = gg.closedEdg[e]

\* balanceEdge on a diagonal has run: the crossing edge costs infinity and is not closed
C6_Witness ==
    /\ last.op = "balanceEdge" /\ IsDiagonal(gg, last.n, last.m)
    /\ gg.cost[CrossEdge(gg, last.n, last.m)] = INF
    /\ ~gg.closedEdg[CrossEdge(gg, last.n, last.m)]

(***************************************************************************)
(* The constructor, step by step.                                          *)
(***************************************************************************)
\* the loops "for x < w, for y < h[, for p < 8]": the position after (x, y, p),
\* p = 7 when the loop has no port index; x = w once the loop is over
LoopNext(h, x, y, p) ==
    IF p < 7 THEN <<x, y, p + 1>>
    ELSE IF y + 1 < h THEN <<x, y + 1, 0>> ELSE <<x + 1, 0, 0>>

InitBuild ==
    /\ gg = NewGrid(GridW, GridH, S1Pens)
    /\ pending = <<>>
    /\ last = [op |-> "new", n |-> NoNode, m |-> NoNode, acted |-> FALSE]
    /\ nops = 0
    /\ walk = NoWalk
    /\ ilp = NoILP
    /\ settled = <<>>
    /\ pen = NoPen
    /\ \E pens \in BuildConfigs, w \in 1 .. BuildW, h \in 1 .. BuildH,
          cs \in CellSizes, sp \in Spacers :
          bld = [pc |-> "nodes", pens |-> pens, w |-> w, h |-> h,
                 cellSize |-> cs, mSpacer |-> sp, spacer |-> cutOffSpacer(cs, sp),
                 x |-> 0, y |-> 0, p |-> 0, g |-> [nodes |-> {}, edges |-> {}],
                 geom |-> <<>>]

\* the first loop: writeNd(x, y, 0, 0)
BuildWriteNd ==
    /\ bld.pc = "nodes"
    /\ LET nx == LoopNext(bld.h, bld.x, bld.y, 7)
       IN  bld' = [bld EXCEPT !.g = writeNd(@, bld.pens, bld.x, bld.y),
                              !.geom = writeNdGeom(@, bld.cellSize, bld.mSpacer,
                                                   bld.x, bld.y),
                              !.x = IF nx[1] = bld.w THEN 0 ELSE nx[1],
                              !.y = nx[2],
                              !.pc = IF nx[1] = bld.w THEN "edges" ELSE "nodes"]
    /\ UNCHANGED <<gg, pending, last, nops, walk, ilp, settled, pen>>

\* the second loop: the inter-cell edge of port p
BuildAddEdge ==
    /\ bld.pc = "edges"
    /\ LET nx == LoopNext(bld.h, bld.x, bld.y, bld.p)
       IN  bld' = [bld EXCEPT !.g = addInterEdge(@, bld.w, bld.h, bld.x, bld.y, bld.p),
                              !.x = IF nx[1] = bld.w THEN 0 ELSE nx[1],
                              !.y = nx[2],
                              !.p = nx[3],
                              !.pc = IF nx[1] = bld.w THEN "costs" ELSE "edges"]
    /\ UNCHANGED <<gg, pending, last, nops, walk, ilp, settled, pen>>

\* writeInitialCosts
BuildWriteCost ==
    /\ bld.pc = "costs"
    /\ LET nx == LoopNext(bld.h, bld.x, bld.y, bld.p)
       IN  bld' = [bld EXCEPT !.g = writeInitialCost(@, bld.pens, bld.w, bld.h,
                                                     bld.x, bld.y, bld.p),
                              !.x = IF nx[1] = bld.w THEN 0 ELSE nx[1],
                              !.y = nx[2],
                              !.p = nx[3],
                              !.pc = IF nx[1] = bld.w THEN "done" ELSE "costs"]
    /\ UNCHANGED <<gg, pending, last, nops, walk, ilp, settled, pen>>

NextBuild == BuildWriteNd \/ BuildAddEdge \/ BuildWriteCost

SpecBuild == InitBuild /\ [][NextBuild]_vars

\* the edges of kind k with an end at node nd
EdgesOfKindAt(k, nd) == {e \in bld.g.edges : e.kind = k /\ nd \in {e.a, e.b}}

\* the angular distance of two directions
AngDist(d1, d2) == IF Abs(d1 - d2) < 8 - Abs(d1 - d2) THEN Abs(d1 - d2) ELSE 8 - Abs(d1 - d2)

\* the constructed graph's inter-cell edges and their costs are those of NewGrid
BuildMatchesNewGrid ==
    bld.pc = "done" =>
        LET G == NewGrid(bld.w, bld.h, bld.pens)
            I == {e \in bld.g.edges : e.kind = "inter"}
        IN  /\ {EdgOf(G, <<e.a[1], e.a[2]>>, e.a[3]) : e \in I} = DOMAIN G.cost
            /\ Cardinality(I) = Cardinality(DOMAIN G.cost)
            /\ \A e \in I : e.cost = G.cost[EdgOf(G, <<e.a[1], e.a[2]>>, e.a[3])]

\* C7: after construction every cell has a center with 8 ports, each port one
\* port-to-center edge of infinite cost, each center 20 bend edges and none
\* between adjacent directions, and every port with an in-bounds neighbour
\* exactly one inter-cell edge, to the mirrored port of that neighbour; a port
\* without one has none.
C7_Construction ==
    bld.pc = "done" =>
        \A x \in 0 .. (bld.w - 1), y \in 0 .. (bld.h - 1) :
            /\ CenterNd(x, y) \in bld.g.nodes
            /\ Cardinality({nd \in bld.g.nodes : nd[1] = x /\ nd[2] = y /\ nd[3] < 8}) = 8
            /\ \A i \in Dirs :
                  /\ Cardinality(EdgesOfKindAt("sink", PortNd(x, y, i))) = 1
                  /\ \A e \in EdgesOfKindAt("sink", PortNd(x, y, i)) :
                        e.cost = INF /\ CenterNd(x, y) \in {e.a, e.b}
            /\ Cardinality(EdgesOfKindAt("sink", CenterNd(x, y))) = 8
            /\ LET bends == {e \in bld.g.edges :
                               e.kind = "bend" /\ e.a[1] = x /\ e.a[2] = y}
               IN  /\ Cardinality(bends) = 20
                   /\ \A e \in bends :
                         /\ e.b[1] = x /\ e.b[2] = y
                         /\ AngDist(e.a[3], e.b[3]) # 1
            /\ \A d \in Dirs :
                  LET nb == getNeighbor([w |-> bld.w, h |-> bld.h], <<x, y>>, d)
                      at == EdgesOfKindAt("inter", PortNd(x, y, d))
                  IN  IF nb = NoNode THEN at = {}
                      ELSE /\ Cardinality(at) = 1
                           /\ \A e \in at :
                                 {e.a, e.b} = {PortNd(x, y, d), PortNd(nb[1], nb[2], (d + 4) % 8)}

\* a grid with a cell that has all 8 neighbours, and cells at the border, is built
C7_Witness == bld.pc = "done" /\ bld.w >= 3 /\ bld.h >= 3

\* C8: the cost of a bend edge depends only on the angular distance of its
\* ports: distance 4 costs p_45 - p_135, 3 costs p_45, 2 costs
\* p_45 - p_135 + p_90; so the edge of the ports rotated by any k costs the same.
C8_BendCost ==
    bld.pc = "done" =>
        \A e \in {f \in bld.g.edges : f.kind = "bend"} :
            /\ AngDist(e.a[3], e.b[3]) = 4 => e.cost = bld.pens.p_45 - bld.pens.p_135
            /\ AngDist(e.a[3], e.b[3]) = 3 => e.cost = bld.pens.p_45
            /\ AngDist(e.a[3], e.b[3]) = 2 =>
                  e.cost = (bld.pens.p_45 - bld.pens.p_135) + bld.pens.p_90
            /\ AngDist(e.a[3], e.b[3]) \in {2, 3, 4}
            /\ \A k \in Dirs :
                  \E f \in bld.g.edges :
                      /\ f.kind = "bend"
                      /\ {f.a, f.b} = {PortNd(e.a[1], e.a[2], (e.a[3] + k) % 8),
                                       PortNd(e.a[1], e.a[2], (e.b[3] + k) % 8)}
                      /\ f.cost = e.cost

\* a grid is built whose bend edges have the three costs, all different
C8_Witness ==
    /\ bld.pc = "done"
    /\ \E e \in bld.g.edges, f \in bld.g.edges, g \in bld.g.edges :
          /\ e.kind = "bend" /\ f.kind = "bend" /\ g.kind = "bend"
          /\ AngDist(e.a[3], e.b[3]) = 4 /\ AngDist(f.a[3], f.b[3]) = 3
          /\ AngDist(g.a[3], g.b[3]) = 2
          /\ e.cost < f.cost /\ f.cost < g.cost

\* the bend edges are ordered by their angle: a bend edge of greater angular
\* distance (a shallower bend) costs less
BendOrdered ==
    \A e \in bld.g.edges, f \in bld.g.edges :
        (/\ e.kind = "bend" /\ f.kind = "bend"
         /\ AngDist(e.a[3], e.b[3]) > AngDist(f.a[3], f.b[3]))
            => e.cost < f.cost

\* C11 as stated: in every grid constructed with penalties that pass the
\* constructor's asserts, the straight pass-through costs less than a 135 degree
\* bend, which costs less than a 90 degree bend.
C11_BendOrdering == bld.pc = "done" => BendOrdered

\* C11: in a grid constructed with penalties that pass the asserts and whose
\* p_135 is positive, the straight pass-through costs less than a 135 degree
\* bend, which costs less than a 90 degree bend.
C11_BendOrderingPositive == (bld.pc = "done" /\ bld.pens.p_135 > 0) => BendOrdered

\* a grid is built with positive p_135, with bend edges of the three angles
C11_Witness ==
    /\ bld.pc = "done" /\ bld.pens.p_135 > 0
    /\ \A k \in {2, 3, 4} :
          \E e \in bld.g.edges : e.kind = "bend" /\ AngDist(e.a[3], e.b[3]) = k

(***************************************************************************)
(* Paths of a freshly constructed 3x3 grid, and GridGraph::heurCost.       *)
(***************************************************************************)
Max(a, b) == IF a > b THEN a ELSE b
Min(a, b) == IF a < b THEN a ELSE b

\* heurCost with the hops counted along the axes instead of diagonally
heurCostManhattan(pens, xa, ya, xb, yb) ==
    IF xa = xb /\ ya = yb THEN 0
    ELSE LET minHops == Abs(xb - xa) + Abs(yb - ya)
             edgeCost == (minHops * Min(pens.verticalPen,
                                        Min(pens.horizontalPen, pens.diagonalPen))) \div 10
             hopCost == ((minHops - 1) * (pens.p_45 - pens.p_135)) \div 10
         IN  edgeCost + hopCost

\* GridGraph::heurCost, in whole units: the two size_t locals truncate the
\* products of minHops with the penalties (which the model holds in tenths)
heurCost(pens, xa, ya, xb, yb) ==
    IF xa = xb /\ ya = yb THEN 0
    ELSE LET minHops == Max(Abs(xb - xa), Abs(yb - ya))
             edgeCost == (minHops * Min(pens.verticalPen,
                                        Min(pens.horizontalPen, pens.diagonalPen))) \div 10
             hopCost == ((minHops - 1) * (pens.p_45 - pens.p_135)) \div 10
         IN  edgeCost + hopCost

\* the grid of scenario S1: 3 by 3 cells
FreshGrid(pens) == NewGrid(3, 3, pens)

\* the cost of the bend edge between ports p and q of one cell
BendCost(pens, p, q) == BendPen(pens, BendDeg(Min(p, q), Max(p, q)))

InitPath ==
    /\ gg = NewGrid(GridW, GridH, S1Pens)
    /\ pending = <<>>
    /\ last = [op |-> "new", n |-> NoNode, m |-> NoNode, acted |-> FALSE]
    /\ nops = 0
    /\ bld = NoBuild
    /\ ilp = NoILP
    /\ settled = <<>>
    /\ pen = NoPen
    /\ \E pens \in PenConfigs, a \in CentersOf(3, 3), i \in Dirs :
          walk = [pens |-> pens, src |-> a, sp |-> i, c |-> a, p |-> i,
                  cost |-> 0, bendCost |-> 0, nTrav |-> 0, nE |-> 0]

\* the path is extended by the inter-cell edge of its last port
Traverse ==
    LET G == FreshGrid(walk.pens)
        nb == getNeighbor(G, walk.c, walk.p)
    IN  /\ nb # NoNode
        /\ walk.cost + G.cost[EdgOf(G, walk.c, walk.p)] <= MaxPathCost
        /\ walk' = [walk EXCEPT !.c = nb,
                                !.p = (walk.p + 4) % 8,
                                !.cost = @ + G.cost[EdgOf(G, walk.c, walk.p)],
                                !.nTrav = @ + 1,
                                !.nE = IF walk.p = 2 THEN @ + 1 ELSE @]
        /\ UNCHANGED <<gg, pending, last, nops, bld, ilp, settled, pen>>

\* the path is extended by the bend edge from its last port to port q
Bend(q) ==
    /\ q # walk.p
    /\ BendDeg(Min(walk.p, q), Max(walk.p, q)) # 1
    /\ walk.cost + BendCost(walk.pens, walk.p, q) <= MaxPathCost
    /\ walk' = [walk EXCEPT !.p = q,
                            !.cost = @ + BendCost(walk.pens, walk.p, q),
                            !.bendCost = @ + BendCost(walk.pens, walk.p, q)]
    /\ UNCHANGED <<gg, pending, last, nops, bld, ilp, settled, pen>>

NextPath == Traverse \/ \E q \in Dirs : Bend(q)

SpecPath == InitPath /\ [][NextPath]_vars

\* C9: heurCost is non-negative for every pair of cells, and at most the cost
\* of every path from a port of the one to a port of the other (in tenths, so
\* 10 times the heuristic's whole units).
C9_Admissible ==
    /\ \A a \in CentersOf(3, 3), b \in CentersOf(3, 3) :
          heurCost(walk.pens, a[1], a[2], b[1], b[2]) >= 0
    /\ 10 * heurCost(walk.pens, walk.src[1], walk.src[2], walk.c[1], walk.c[2]) <= walk.cost

\* a path two hops long whose cost the heuristic meets exactly
C9_Witness ==
    /\ Max(Abs(walk.c[1] - walk.src[1]), Abs(walk.c[2] - walk.src[2])) = 2
    /\ walk.cost > 0
    /\ 10 * heurCost(walk.pens, walk.src[1], walk.src[2], walk.c[1], walk.c[2]) = walk.cost

\* the path has gone from the east port of (0, 0) to the west port of (2, 0)
\* under the penalties of scenario S1
S1Arrived ==
    /\ walk.pens = S1Pens
    /\ walk.src = <<0, 0>> /\ walk.sp = 2
    /\ walk.c = <<2, 0>> /\ walk.p = 6

\* C10 as stated: the path of two inter-cell E-edges and the pass-through at
\* (1, 0) costs 2 in total, its bend costing 0.
C10_S1CostTwo ==
    (S1Arrived /\ walk.nTrav = 2 /\ walk.nE = 2) =>
        (walk.cost = 20 /\ walk.bendCost = 0)

\* C10: every path from the east port of (0, 0) to the west port of (2, 0)
\* costs at least 4, and one that costs 4 is two inter-cell E-edges (cost 2)
\* and the straight pass-through bend of cost p_45 - p_135 = 2.
C10_S1CostFour ==
    S1Arrived =>
        /\ walk.cost >= 40
        /\ walk.cost = 40 =>
              (walk.nTrav = 2 /\ walk.nE = 2 /\ walk.bendCost = 20)

\* the path of cost 4 arrives
C10_Witness == S1Arrived /\ walk.cost = 40 /\ walk.nE = 2

\* C18: every port of the constructed grid lies at most cellSize/2 from its
\* center in x and in y, and, when the spacer passed exceeds cellSize/2, at
\* cellSize/2 times the unit offset of its direction.
C18_PortsWithinHalfCell ==
    bld.pc = "done" =>
        \A x \in 0 .. (bld.w - 1), y \in 0 .. (bld.h - 1), i \in Dirs :
            LET c == bld.geom[CenterNd(x, y)]
                q == bld.geom[PortNd(x, y, i)]
            IN  /\ 2 * Abs(q[1] - c[1]) <= bld.cellSize
                /\ 2 * Abs(q[2] - c[2]) <= bld.cellSize
                /\ 2 * bld.mSpacer > bld.cellSize =>
                      /\ 2 * (q[1] - c[1]) = NeighDX(i) * bld.cellSize
                      /\ 2 * (q[2] - c[2]) = NeighDY(i) * bld.cellSize

(***************************************************************************)
(* ILPOptimizer::optimizeComp, step by step.                               *)
(***************************************************************************)
InitILP ==
    /\ gg = NewGrid(GridW, GridH, S1Pens)
    /\ pending = <<>>
    /\ last = [op |-> "new", n |-> NoNode, m |-> NoNode, acted |-> FALSE]
    /\ nops = 0
    /\ bld = NoBuild
    /\ walk = NoWalk
    /\ settled = <<>>
    /\ pen = NoPen
    /\ \E G \in OptGraphs, a \in BOOLEAN :
          ilp = [pc |-> "create", og |-> G, asserts |-> a, lp |-> NewLP, k |-> 1,
                 status |-> "none", val |-> <<>>,
                 hc |-> [key \in HcKeys(G) |-> <<>>], ret |-> -1,
                 upd |-> [rows |-> -1, cols |-> -1], disposed |-> FALSE]

\* createProblem's first loop, for the next segment
CreateSegment ==
    /\ ilp.pc = "create"
    /\ LET segs == SegsOf(ilp.og, 1)
       IN  ilp' = [ilp EXCEPT !.lp = createSegment(@, ilp.og, segs[ilp.k]),
                              !.k = IF ilp.k = Len(segs) THEN 1 ELSE @ + 1,
                              !.pc = IF ilp.k = Len(segs) THEN "update" ELSE "create"]
    /\ UNCHANGED <<gg, pending, last, nops, bld, walk, settled, pen>>

\* createProblem's lp->update(): the solver takes in the rows and columns
\* added so far
Update ==
    /\ ilp.pc = "update"
    /\ ilp' = [ilp EXCEPT !.upd = [rows |-> Len(ilp.lp.rows), cols |-> Len(ilp.lp.cols)],
                          !.pc = "same"]
    /\ UNCHANGED <<gg, pending, last, nops, bld, walk, settled, pen>>

WriteSameSeg ==
    /\ ilp.pc = "same"
    /\ ilp' = [ilp EXCEPT !.lp = writeSameSegConstraints(ilp.og, @), !.pc = "diff"]
    /\ UNCHANGED <<gg, pending, last, nops, bld, walk, settled, pen>>

WriteDiffSeg ==
    /\ ilp.pc = "diff"
    /\ ilp' = [ilp EXCEPT !.lp = writeDiffSegConstraints(ilp.og, @), !.pc = "solve"]
    /\ UNCHANGED <<gg, pending, last, nops, bld, walk, settled, pen>>

\* lp->solve(): the solver ends with a feasible assignment, or it fails (there
\* is none, or the solver gives up) and leaves any values in the variables
Solve ==
    /\ ilp.pc = "solve"
    /\ \/ \E v \in Solutions(ilp.lp) :
             ilp' = [ilp EXCEPT !.status = "optimal", !.val = v, !.pc = "extract"]
       \/ \E v \in Assignments(ilp.lp) :
             ilp' = [ilp EXCEPT !.status = "failed", !.val = v, !.pc = "extract"]
    /\ UNCHANGED <<gg, pending, last, nops, bld, walk, settled, pen>>

\* getConfigurationFromSolution, for the next position of the next
\* edge-trip-group; a failed assert ends the program where asserts are compiled in
ExtractPos ==
    /\ ilp.pc = "extract"
    /\ LET work == ExtractWork(ilp.og)
           q == work[ilp.k]
           e == SegsOf(ilp.og, 1)[q[1]]
           S == extractLines([hc |-> ilp.hc, found |-> FALSE, failed |-> FALSE],
                             ilp.og, ilp.lp, ilp.val, e, ilp.og.etgs[e][q[2]], q[3], 1)
       IN  ilp' = [ilp EXCEPT !.hc = S.hc,
                              !.k = @ + 1,
                              !.pc = IF ilp.asserts /\ (S.failed \/ ~S.found) THEN "aborted"
                                     ELSE IF ilp.k = Len(work) THEN "return"
                                     ELSE "extract"]
    /\ UNCHANGED <<gg, pending, last, nops, bld, walk, settled, pen>>

\* optimizeComp's "return 0"; the solver createProblem allocated is a local
\* pointer that no statement deletes
Return ==
    /\ ilp.pc = "return"
    /\ ilp' = [ilp EXCEPT !.ret = 0, !.pc = "done"]
    /\ UNCHANGED <<gg, pending, last, nops, bld, walk, settled, pen>>

NextILP == CreateSegment \/ Update \/ WriteSameSeg \/ WriteDiffSeg \/ Solve \/ ExtractPos \/ Return

SpecILP == InitILP /\ [][NextILP]_vars
\* the lines of segment e (by index) that the assignment v puts at position p
LinesAtPos(G, lp, v, e, p) ==
    {k \in 1 .. Len(G.lines[e]) : getVarVal(lp, v, getILPVarName(e, LineAt(G, e, k), p)) = 1}

\* the positions of segment e that the assignment v gives to its k-th line
PosOfLine(G, lp, v, e, k) ==
    {p \in 0 .. (G.card[e] - 1) : getVarVal(lp, v, getILPVarName(e, LineAt(G, e, k), p)) = 1}

\* every segment has one line at every position and every line at one position
SlotsAndLinesUnique(G, lp, v) ==
    \A e \in DOMAIN G.card :
        /\ \A p \in 0 .. (G.card[e] - 1) : Cardinality(LinesAtPos(G, lp, v, e, p)) = 1
        /\ \A k \in 1 .. Len(G.lines[e]) : Cardinality(PosOfLine(G, lp, v, e, k)) = 1

\* C12: every assignment that satisfies the rows of createProblem's model has
\* exactly one line at every position of every segment and every line at
\* exactly one position; so has the solution of a successful solve, and the
\* asserts of getConfigurationFromSolution do not fail on it.
C12_SlotLineUnique ==
    /\ ilp.pc = "solve" => \A v \in Solutions(ilp.lp) : SlotsAndLinesUnique(ilp.og, ilp.lp, v)
    /\ ilp.status = "optimal" =>
          /\ SlotsAndLinesUnique(ilp.og, ilp.lp, ilp.val)
          /\ ilp.pc # "aborted"

\* a solved component of a three-line segment has been extracted with asserts on
C12_Witness ==
    /\ ilp.pc = "done" /\ ilp.status = "optimal" /\ ilp.asserts
    /\ ilp.og = OgWide

\* the assignment v puts line l1 of a at p1, l2 at p2, and in b l1 at p3, l2 at p4
SameSegAt(lp, v, a, b, l1, l2, p1, p2, p3, p4) ==
    /\ getVarVal(lp, v, getILPVarName(a, l1, p1)) = 1
    /\ getVarVal(lp, v, getILPVarName(a, l2, p2)) = 1
    /\ getVarVal(lp, v, getILPVarName(b, l1, p3)) = 1
    /\ getVarVal(lp, v, getILPVarName(b, l2, p4)) = 1

\* under v every crossing the positions realise has its decision variable at 1
CrossingsDecided(G, lp, v) ==
    /\ \A j \in SameSegJobs(G) :
          LET node == G.g[j[1]]
              a == SegAt(G, j[1], j[2])
              b == SegAt(G, j[1], j[5])
              l1 == LineAt(G, a, j[3])
              l2 == LineAt(G, a, j[4])
          IN  \A p1 \in 0 .. (G.card[a] - 1), p2 \in 0 .. (G.card[a] - 1),
                 p3 \in 0 .. (G.card[b] - 1), p4 \in 0 .. (G.card[b] - 1) :
                  (/\ crossesSame(G, <<<<p1, p3>>, <<p2, p4>>>>)
                   /\ SameSegAt(lp, v, a, b, l1, l2, p1, p2, p3, p4))
                      => getVarVal(lp, v, <<"x_dec", a, b, l1, l2, node>>) = 1
    /\ \A j \in DiffSegJobs(G) :
          LET node == G.g[j[1]]
              a == SegAt(G, j[1], j[2])
              l1 == LineAt(G, a, j[3])
              l2 == LineAt(G, a, j[4])
          IN  \A p1 \in 0 .. (G.card[a] - 1), p2 \in 0 .. (G.card[a] - 1) :
                  (/\ crossesDiff(G, <<p1, p2>>)
                   /\ getVarVal(lp, v, getILPVarName(a, l1, p1)) = 1
                   /\ getVarVal(lp, v, getILPVarName(a, l2, p2)) = 1)
                      => getVarVal(lp, v, <<"x_dec", a, SegAt(G, j[1], j[5]),
                                            SegAt(G, j[1], j[6]), l1, l2, node>>) = 1

\* C13: in every assignment that satisfies the rows of the model, and so in the
\* solution of a successful solve, whenever the positions of a line pair realise
\* a combination the crossing oracle holds for (in a and b for lines that
\* continue together, in a for lines that part), the decision variable made
\* for that node, those segments and that line pair is 1.
C13_CrossingForcesDec ==
    /\ ilp.pc = "solve" => \A v \in Solutions(ilp.lp) : CrossingsDecided(ilp.og, ilp.lp, v)
    /\ ilp.status = "optimal" => CrossingsDecided(ilp.og, ilp.lp, ilp.val)

\* a solution in which the two lines of the chain cross between a and b
C13_Witness ==
    /\ ilp.status = "optimal" /\ ilp.og = OgChain
    /\ \E p1 \in 0 .. 1, p2 \in 0 .. 1, p3 \in 0 .. 1, p4 \in 0 .. 1 :
          /\ crossesSame(ilp.og, <<<<p1, p3>>, <<p2, p4>>>>)
          /\ SameSegAt(ilp.lp, ilp.val, "a", "b", "L1", "L2", p1, p2, p3, p4)
          /\ getVarVal(ilp.lp, ilp.val, <<"x_dec", "a", "b", "L1", "L2", "n2">>) = 1

\* the original positions of the lines of segment e in edge-trip-group etg, in
\* increasing order of the slots v gives them, from slot tp on
RECURSIVE SlotPositions(_, _, _, _, _, _)
SlotPositions(G, lp, v, e, etg, tp) ==
    IF tp >= G.card[e] THEN <<>>
    ELSE LET rels == G.lines[e][CHOOSE k \in LinesAtPos(G, lp, v, e, tp) : TRUE].relatives
         IN  [i \in 1 .. Len(rels) |-> linePos(G, etg, rels[i])]
                 \o SlotPositions(G, lp, v, e, etg, tp + 1)

Reverse(q) == [i \in 1 .. Len(q) |-> q[Len(q) + 1 - i]]

\* C14 as stated: after the extraction of a solution the order list of an
\* edge-trip-group that was not cut holds the positions in slot order, each
\* inserted at the front if the group's dir differs from the dir of the
\* segment's first group, appended at the back if the two agree.
C14_FrontOnDisagree ==
    (ilp.pc = "done" /\ ilp.status = "optimal") =>
        \A e \in DOMAIN ilp.og.etgs : \A k \in 1 .. Len(ilp.og.etgs[e]) :
            LET etgp == ilp.og.etgs[e][k]
                pos == SlotPositions(ilp.og, ilp.lp, ilp.val, e, etgp.etg, 0)
            IN  ~etgp.wasCut =>
                    ilp.hc[<<etgp.etg, etgp.order>>] =
                        IF etgp.dir # ilp.og.etgs[e][1].dir THEN Reverse(pos) ELSE pos

\* C14: after the extraction of a solution the order list of an edge-trip-group
\* that was not cut holds the positions in slot order, each inserted at the
\* front if the group's dir agrees with the dir of the segment's first group
\* (dir xor front-dir is false), appended at the back if the two differ; a
\* group that was cut gets none.
C14_FrontOnAgree ==
    (ilp.pc = "done" /\ ilp.status = "optimal") =>
        \A e \in DOMAIN ilp.og.etgs : \A k \in 1 .. Len(ilp.og.etgs[e]) :
            LET etgp == ilp.og.etgs[e][k]
                pos == SlotPositions(ilp.og, ilp.lp, ilp.val, e, etgp.etg, 0)
            IN  ilp.hc[<<etgp.etg, etgp.order>>] =
                    IF etgp.wasCut THEN <<>>
                    ELSE IF etgp.dir # ilp.og.etgs[e][1].dir THEN pos ELSE Reverse(pos)

\* the chain, with a group along and a group against the reference direction,
\* has been extracted: the one list is the reverse of the other
C14_Witness ==
    /\ ilp.pc = "done" /\ ilp.status = "optimal" /\ ilp.og = OgChain
    /\ Len(ilp.hc[<<"e2", 0>>]) = 2
    /\ ilp.hc[<<"e3", 0>>] = Reverse(ilp.hc[<<"e2", 0>>])
    /\ ilp.hc[<<"e3", 0>>] # ilp.hc[<<"e2", 0>>]

\* C21: when the solve begins every row and column of the model was there at
\* the update before it, values are extracted only after the solve, and the
\* model has been disposed when optimizeComp has returned.
C21_Lifecycle ==
    /\ ilp.pc \in {"solve", "extract", "return", "done", "aborted"} =>
          ilp.upd = [rows |-> Len(ilp.lp.rows), cols |-> Len(ilp.lp.cols)]
    /\ (\E key \in DOMAIN ilp.hc : ilp.hc[key] # <<>>) => ilp.status # "none"
    /\ ilp.pc = "done" => ilp.disposed

\* C20: when the solve fails, optimizeComp does not return 0 and nothing is
\* written into the hierarchical order configuration.
C20_UnsolvableIsError ==
    ilp.status = "failed" =>
        /\ ilp.ret # 0
        /\ \A key \in DOMAIN ilp.hc : ilp.hc[key] = <<>>

(***************************************************************************)
(* The grid under the router's calls, settlements included.                *)
(***************************************************************************)
SettleGridNode(n, cn) ==
    /\ nops < MaxOps
    /\ settled' = settleGridNode(settled, n, cn)
    /\ last' = [op |-> "settleGridNode", n |-> n, m |-> NoNode, cn |-> cn,
                acted |-> settled' # settled]
    /\ nops' = nops + 1
    /\ UNCHANGED <<gg, pending, bld, walk, ilp, pen>>

NextSettle ==
    \/ Next
    \/ \E n \in Centers, cn \in CombNodes : SettleGridNode(n, cn)

SpecSettle == Init /\ [][NextSettle]_vars

\* C15: settling a comb node that is already in the settlement map leaves the
\* map as it is (the first commitment is kept).
C15_DuplicateSettleKeepsMap ==
    \A n \in Centers, cn \in CombNodes :
        isSettled(settled, cn) => settleGridNode(settled, n, cn) = settled

\* a settled comb node answers both queries with its grid node, whatever maxDis
Authoritative(G, S, cn) ==
    \A maxDis \in MaxDs :
        /\ getGridNodeFrom(G, S, cn, maxDis) = {S[cn]}
        /\ getGridNodesTo(G, S, cn, maxDis) = {S[cn]}

\* C16: a settled comb node c stays settled with the same grid node g over
\* every call other than a settle of c itself, and in every state both
\* getGridNodeFrom(c) and getGridNodesTo(c) return exactly g, whether g is
\* closed or not and whatever maxDis is.
C16_SettledStays ==
    /\ [](\A cn \in CombNodes : isSettled(settled, cn) => Authoritative(gg, settled, cn))
    /\ [][\A cn \in CombNodes :
            (isSettled(settled, cn) /\ ~(last'.op = "settleGridNode" /\ last'.cn = cn))
                => (isSettled(settled', cn) /\ settled'[cn] = settled[cn])]_vars

\* u is settled on a center that has been closed since, and v was settled after u
C16_Witness ==
    /\ isSettled(settled, "u") /\ isSettled(settled, "v")
    /\ gg.closedNd[settled["u"]]
    /\ last.op = "settleGridNode" /\ last.cn = "v"
    /\ settled["u"] \notin getNearestCandidatesFor(gg, CombGeom("u"), 3)

\* C17: getNearestCandidatesFor(p, maxD) holds exactly the centers that are not
\* closed and nearer to p than maxD; for a comb node that is not settled,
\* getGridNodeFrom returns one of the nearest of them (0 if there is none) and
\* getGridNodesTo all of them, so neither returns a closed center.
C17_CandidatesOpenAndNear ==
    \A cn \in CombNodes, maxD \in MaxDs :
        LET p == CombGeom(cn)
            open == {n \in Centers : ~gg.closedNd[n] /\ Dist2(CenterGeom(n), p) < maxD * maxD}
        IN  /\ getNearestCandidatesFor(gg, p, maxD) = open
            /\ ~isSettled(settled, cn) =>
                  /\ getGridNodesTo(gg, settled, cn, maxD) = open
                  /\ \A r \in getGridNodeFrom(gg, settled, cn, maxD) :
                        IF open = {} THEN r = NoNode
                        ELSE /\ r \in open
                             /\ \A m \in open : Dist2(CenterGeom(r), p) <= Dist2(CenterGeom(m), p)

\* the center under u is closed, so u's nearest candidate is a farther, open one
C17_Witness ==
    /\ ~isSettled(settled, "u")
    /\ gg.closedNd[<<0, 0>>]
    /\ getGridNodeFrom(gg, settled, "u", 3) \subseteq {<<1, 0>>, <<0, 1>>}
    /\ getGridNodeFrom(gg, settled, "u", 3) # {}
    /\ getGridNodeFrom(gg, settled, "u", 1) = {NoNode}

(***************************************************************************)
(* The grid under the router's calls, spacingPenalty included.             *)
(***************************************************************************)
SpacingPenalty(n, origNode, e) ==
    /\ nops < MaxOps
    /\ \E out \in spacingPenalty(gg, S1Pens, n, origNode, e) :
          last' = [op |-> "spacingPenalty", n |-> n, m |-> NoNode, acted |-> FALSE,
                   origNode |-> origNode, e |-> e, out |-> out]
    /\ nops' = nops + 1
    /\ UNCHANGED <<gg, pending, bld, walk, ilp, settled, pen>>

NextPenalty ==
    \/ Next
    \/ \E n \in Centers, origNode \in OrigNodes, e \in OrigEdges :
          SpacingPenalty(n, origNode, e)

SpecPenalty == Init /\ [][NextPenalty]_vars

\* C19: a call of spacingPenalty for an edge that is not in the comb node's
\* edge ordering does not fail and returns the all-zero cost vector, whatever
\* the number of the node's incident edges, none included.
C19_MissingEdgeZeroVector ==
    (last.op = "spacingPenalty" /\ ~has(last.origNode.ord, last.e)) =>
        /\ ~last.out.failed
        /\ last.out.addC = ZeroCost

(***************************************************************************)
(* topoBlockPenalty, turn by turn of its outer loop.                       *)
(***************************************************************************)
\* the comb nodes the penalties are computed for: 2 to 5 incident edges
PenNodes == {u \in OrigNodes : u.adj \in 2 .. 5} \cup
            {[adj |-> 3, ord |-> <<"e1", "e2", "e3">>],
             [adj |-> 5, ord |-> <<"e1", "e2", "e3", "e4", "e5">>]}

InitTopo ==
    /\ gg = NewGrid(GridW, GridH, S1Pens)
    /\ pending = <<>>
    /\ last = [op |-> "new", n |-> NoNode, m |-> NoNode, acted |-> FALSE]
    /\ nops = 0
    /\ bld = NoBuild
    /\ walk = NoWalk
    /\ ilp = NoILP
    /\ settled = <<>>
    /\ \E u \in PenNodes : \E e \in EdgesIn(u.ord) : \E out \in Outgoings(u.ord, e) :
          pen = [pc |-> "topo", origNode |-> u, e |-> e, outgoing |-> out,
                 i |-> 0, addC |-> ZeroCost]

TopoOuter ==
    /\ pen.pc = "topo"
    /\ pen' = [pen EXCEPT !.addC = topoOuter(@, pen.origNode.ord, pen.e, pen.outgoing, pen.i),
                          !.i = @ + 1,
                          !.pc = IF pen.i = 7 THEN "done" ELSE "topo"]
    /\ UNCHANGED <<gg, pending, last, nops, bld, walk, ilp, settled>>

NextTopo == TopoOuter

SpecTopo == InitTopo /\ [][NextTopo]_vars

\* a, b, c follow one another clockwise in the ordering
CycOrdered(ord, a, b, c) == dist(ord, a, b) + dist(ord, b, c) + dist(ord, c, a) = Len(ord)

\* the occupied directions, read clockwise, carry their edges in the cyclic
\* order of the ordering
Consistent(ord, outgoing) ==
    \A i \in Dirs, j \in Dirs, k \in Dirs :
        (i < j /\ j < k /\ outgoing[i] # "" /\ outgoing[j] # "" /\ outgoing[k] # "")
            => CycOrdered(ord, outgoing[i], outgoing[j], outgoing[k])

\* C22: when the routed edges of u lie in directions consistent with u's
\* clockwise ordering, every free direction that topoBlockPenalty leaves open
\* for e holds 0 and, with e placed there, the directions are still
\* consistent with the ordering; every slot holds 0 or the closed sentinel.
C22_TopoBlockSound ==
    (pen.pc = "done" /\ Consistent(pen.origNode.ord, pen.outgoing)) =>
        \A d \in Dirs :
            /\ pen.addC[d] \in {0, Sentinel}
            /\ (pen.outgoing[d] = "" /\ pen.addC[d] # Sentinel) =>
                  Consistent(pen.origNode.ord, [pen.outgoing EXCEPT ![d] = pen.e])

\* three routed edges in consistent directions: some free direction is closed
\* for e and some is left open
C22_Witness ==
    /\ pen.pc = "done" /\ Consistent(pen.origNode.ord, pen.outgoing)
    /\ Cardinality({i \in Dirs : pen.outgoing[i] # ""}) = 3
    /\ \E d \in Dirs : pen.outgoing[d] = "" /\ pen.addC[d] = Sentinel
    /\ \E d \in Dirs : pen.outgoing[d] = "" /\ pen.addC[d] = 0

(***************************************************************************)
(* spacingPenalty for an edge of the ordering, turn by turn of its loop.   *)
(***************************************************************************)
InitSpacing ==
    /\ gg = NewGrid(GridW, GridH, S1Pens)
    /\ pending = <<>>
    /\ last = [op |-> "new", n |-> NoNode, m |-> NoNode, acted |-> FALSE]
    /\ nops = 0
    /\ bld = NoBuild
    /\ walk = NoWalk
    /\ ilp = NoILP
    /\ settled = <<>>
    /\ \E pens \in PenConfigs, u \in PenNodes :
          \E e \in EdgesIn(u.ord), od \in optimDistances(u.adj) :
             \E out \in Outgoings(u.ord, e) :
                pen = [pc |-> "spacing", pens |-> pens, origNode |-> u, e |-> e,
                       od |-> od, outgoing |-> out, i |-> 0, addC |-> ZeroCost]

SpacingStep ==
    /\ pen.pc = "spacing"
    /\ pen' = [pen EXCEPT !.addC = IF pen.outgoing[pen.i] = "" THEN @
                                   ELSE spacingStep(@, pen.pens, pen.origNode.ord, pen.od,
                                                    pen.e, pen.i, pen.outgoing[pen.i]),
                          !.i = @ + 1,
                          !.pc = IF pen.i = 7 THEN "done" ELSE "spacing"]
    /\ UNCHANGED <<gg, pending, last, nops, bld, walk, ilp, settled>>

NextSpacing == SpacingStep

SpecSpacing == InitSpacing /\ [][NextSpacing]_vars

\* the slots spacingPenalty closes for the routed edge in direction i
HardBlocked(ord, e, outgoing, i) ==
    {i} \cup {(i + j) % 8 : j \in 1 .. (dist(ord, outgoing[i], e) - 1)}
        \cup {(i - j) % 8 : j \in 1 .. (dist(ord, e, outgoing[i]) - 1)}

\* C23: for every occupied direction i the loop has processed, slot i, the
\* dCw slots clockwise of it and the dCCw slots counter-clockwise of it hold
\* the closed sentinel, at every later turn of the loop and in the vector
\* returned.
C23_HardBlocksStay ==
    pen.pc \in {"spacing", "done"} =>
        \A i \in Dirs :
            (i < pen.i /\ pen.outgoing[i] # "") =>
                \A s \in HardBlocked(pen.origNode.ord, pen.e, pen.outgoing, i) :
                    pen.addC[s] = Sentinel

\* the vector is returned: two directions are occupied, the window of the first
\* reaches a slot the second adds its penalty around, and some slot holds a penalty
C23_Witness ==
    /\ pen.pc = "done"
    /\ \E i \in Dirs, k \in Dirs :
          /\ i < k /\ pen.outgoing[i] # "" /\ pen.outgoing[k] # ""
          /\ Cardinality(HardBlocked(pen.origNode.ord, pen.e, pen.outgoing, i)) >= 3
          /\ (k + 1) % 8 \in HardBlocked(pen.origNode.ord, pen.e, pen.outgoing, i)
    /\ \E s \in Dirs : pen.addC[s] > 0

\* scenario S6: four edges e1..e4, of which e1, e2, e3 are routed in the
\* directions 0, 2, 4, and the penalty is computed for e4
S6 ==
    /\ pen.origNode.ord = <<"e1", "e2", "e3", "e4">> /\ pen.e = "e4"
    /\ pen.outgoing = [i \in Dirs |-> IF i = 0 THEN "e1" ELSE IF i = 2 THEN "e2"
                                      ELSE IF i = 4 THEN "e3" ELSE ""]

\* C24: in scenario S6 the vector returned has, among the slots that do not
\* hold the closed sentinel, its only minimum in direction 6.
C24_S6MinimumAtSix ==
    (pen.pc = "done" /\ S6) =>
        /\ pen.addC[6] # Sentinel
        /\ \A d \in Dirs \ {6} : pen.addC[d] = Sentinel \/ pen.addC[d] > pen.addC[6]

\* the vector of S6 is returned, with an open slot besides direction 6
C24_Witness ==
    /\ pen.pc = "done" /\ S6
    /\ \E d \in Dirs \ {6} : pen.addC[d] # Sentinel

\* the grid H differs from G at most in the closed flag of center n and in the
\* closed flags of the inter-cell edges at n's ports
SameButAt(G, H, n) ==
    [H EXCEPT !.closedNd[n] = G.closedNd[n],
              !.closedEdg = [e \in DOMAIN @ |-> IF e \in EdgesAt(G, n) THEN G.closedEdg[e]
                                                ELSE @[e]]] = G

\* C28: a call of closeNode(n) or openNode(n) changes at most n's closed flag
\* and the closed flags of the inter-cell edges at n's ports: every raw cost,
\* the closed flag of every other center and of every other inter-cell edge,
\* every reserved set and the settlement map are as before.
C28_CloseOpenFrame ==
    [][last'.op \in {"closeNode", "openNode"} =>
          /\ SameButAt(gg, gg', last'.n)
          /\ settled' = settled]_vars

\* openNode has opened a center, closed by an earlier call, while a comb node
\* is settled
C28_Witness ==
    /\ last.op = "openNode" /\ last.acted
    /\ DOMAIN settled # {}

=============================================================================
